---------------------------- MODULE Spec2Model ----------------------------
(***************************************************************************)
(* A model of get_revenue_from_macrotrends                                 *)
(* (06_stock_project_cheatsheet.py): the fetch of a page, the scan of its  *)
(* tables for the one that holds a label, the reading of its body rows,    *)
(* the cleaning of the amounts and the sort by label.                      *)
(*                                                                         *)
(* Text is a sequence of one-character strings, compared by code point as  *)
(* Python compares str.  A parsed page is a tree of nodes, as              *)
(* BeautifulSoup builds it: an element has a tag and children, a text node *)
(* has the tag "#text" and its text.                                       *)
(***************************************************************************)
EXTENDS Integers, Sequences, FiniteSets, Bags, TLC

(***************************************************************************)
(* Characters and strings (Python str)                                     *)
(***************************************************************************)

\* The printable ASCII characters in code-point order, from " " (32) to "~" (126).
\* The grave accent (96) cannot be written in a TLA+ string; its place is kept by
\* "grave", which no text of the model holds.
Printable ==
    << " ", "!", "\"", "#", "$", "%", "&", "'", "(", ")", "*", "+", ",", "-", ".", "/",
       "0", "1", "2", "3", "4", "5", "6", "7", "8", "9", ":", ";", "<", "=", ">", "?",
       "@", "A", "B", "C", "D", "E", "F", "G", "H", "I", "J", "K", "L", "M", "N", "O",
       "P", "Q", "R", "S", "T", "U", "V", "W", "X", "Y", "Z", "[", "\\", "]", "^", "_",
       "grave", "a", "b", "c", "d", "e", "f", "g", "h", "i", "j", "k", "l", "m", "n", "o",
       "p", "q", "r", "s", "t", "u", "v", "w", "x", "y", "z", "{", "|", "}", "~" >>

\* The code point of a character.
Ord(c) == 31 + (CHOOSE i \in 1..Len(Printable) : Printable[i] = c)

\* The character of a code point.
Chr(n) == Printable[n - 31]

Digits == {"0", "1", "2", "3", "4", "5", "6", "7", "8", "9"}

\* str.isspace for the one whitespace character of the alphabet.
IsSpace(c) == c = " "

\* str.lower, character by character.
LowerChar(c) == IF Ord(c) >= 65 /\ Ord(c) <= 90 THEN Chr(Ord(c) + 32) ELSE c

Lower(s) == [i \in 1..Len(s) |-> LowerChar(s[i])]

\* Concatenation of a sequence of sequences.
RECURSIVE Concat(_)
Concat(ss) == IF ss = <<>> THEN <<>> ELSE Head(ss) \o Concat(Tail(ss))

\* str.lstrip, str.rstrip and str.strip with no argument.
RECURSIVE LStrip(_)
LStrip(s) == IF s # <<>> /\ IsSpace(Head(s)) THEN LStrip(Tail(s)) ELSE s

RECURSIVE RStrip(_)
RStrip(s) ==
    IF s # <<>> /\ IsSpace(s[Len(s)]) THEN RStrip(SubSeq(s, 1, Len(s) - 1)) ELSE s

Strip(s) == RStrip(LStrip(s))

\* a in b, for two str: a is a substring of b, case-sensitive.
Contains(b, a) ==
    \E i \in 0..(Len(b) - Len(a)) : SubSeq(b, i + 1, i + Len(a)) = a

\* a < b for two str: lexicographic on code points.
RECURSIVE StrLess(_, _)
StrLess(a, b) ==
    IF b = <<>> THEN FALSE
    ELSE IF a = <<>> THEN TRUE
    ELSE IF Head(a) # Head(b) THEN Ord(Head(a)) < Ord(Head(b))
    ELSE StrLess(Tail(a), Tail(b))

(***************************************************************************)
(* float(str), as pandas' astype(float) applies it to each str of an       *)
(* object column.  A finite value m * 10^(-k) is kept as the pair (m, k)   *)
(* with trailing zeros of m removed, so that two texts of the same number  *)
(* give the same value; the texts of the model are short enough for the    *)
(* decimal to be read exactly.                                             *)
(***************************************************************************)

\* A run of digits in which single underscores may separate digits ("1_000").
DigitRun(s) ==
    /\ \A i \in 1..Len(s) : s[i] \in Digits \cup {"_"}
    /\ \A i \in 1..Len(s) :
          s[i] = "_" => /\ i > 1 /\ i < Len(s)
                        /\ s[i - 1] \in Digits /\ s[i + 1] \in Digits

DropUnderscores(s) == SelectSeq(s, LAMBDA c : c # "_")

\* The number a sequence of digits writes.
RECURSIVE DigitsValue(_)
DigitsValue(s) ==
    IF s = <<>> THEN 0
    ELSE 10 * DigitsValue(SubSeq(s, 1, Len(s) - 1)) + (Ord(s[Len(s)]) - 48)

\* The position of the first character of s that is in set cs, 0 if none.
FirstOf(s, cs) ==
    IF \E i \in 1..Len(s) : s[i] \in cs
    THEN CHOOSE i \in 1..Len(s) : s[i] \in cs /\ \A j \in 1..(i - 1) : s[j] \notin cs
    ELSE 0

\* (m, k) with the trailing zeros of m removed.
RECURSIVE Normalize(_, _)
Normalize(m, k) ==
    IF m = 0 THEN [m |-> 0, k |-> 0]
    ELSE IF m % 10 = 0 THEN Normalize(m \div 10, k - 1)
    ELSE [m |-> m, k |-> k]

\* The number of decimal digits of a natural number.
RECURSIVE NumDigits(_)
NumDigits(m) == IF m < 10 THEN 1 ELSE 1 + NumDigits(m \div 10)

FloatError == [kind |-> "error", m |-> 0, k |-> 0]
FloatNaN   == [kind |-> "nan", m |-> 0, k |-> 0]
FloatInf(neg) == [kind |-> "inf", m |-> IF neg THEN -1 ELSE 1, k |-> 0]
FloatNum(m, k) == [kind |-> "num", m |-> Normalize(m, k).m, k |-> Normalize(m, k).k]

\* float() of an unsigned decimal literal: digits, an optional point, an optional
\* exponent.  A magnitude past the range of a double (10^308) reads as inf, one
\* below it (10^-324) as 0.
ParseDecimal(s, neg) ==
    LET ePos  == FirstOf(s, {"e", "E"})
        mant  == IF ePos = 0 THEN s ELSE SubSeq(s, 1, ePos - 1)
        expo  == IF ePos = 0 THEN <<>> ELSE SubSeq(s, ePos + 1, Len(s))
        eNeg  == expo # <<>> /\ Head(expo) = "-"
        eDig  == IF expo # <<>> /\ Head(expo) \in {"+", "-"} THEN Tail(expo) ELSE expo
        pPos  == FirstOf(mant, {"."})
        ip    == IF pPos = 0 THEN mant ELSE SubSeq(mant, 1, pPos - 1)
        fp    == IF pPos = 0 THEN <<>> ELSE SubSeq(mant, pPos + 1, Len(mant))
        okM   == DigitRun(ip) /\ DigitRun(fp) /\ (ip # <<>> \/ fp # <<>>)
        okE   == ePos = 0 \/ (eDig # <<>> /\ DigitRun(eDig))
        fpD   == DropUnderscores(fp)
        m     == DigitsValue(DropUnderscores(ip) \o fpD)
        e     == IF ePos = 0 THEN 0
                 ELSE IF eNeg THEN 0 - DigitsValue(DropUnderscores(eDig))
                 ELSE DigitsValue(DropUnderscores(eDig))
        n     == Normalize(m, Len(fpD) - e)
        mag   == NumDigits(n.m) - n.k - 1
    IN  IF ~(okM /\ okE) THEN FloatError
        ELSE IF n.m = 0 THEN FloatNum(0, 0)
        ELSE IF mag > 308 THEN FloatInf(neg)
        ELSE IF mag < -324 THEN FloatNum(0, 0)
        ELSE FloatNum(IF neg THEN 0 - n.m ELSE n.m, n.k)

\* float(s): surrounding whitespace is dropped, a sign is read, then "inf",
\* "infinity" or "nan" in any letter case, or a decimal literal.
ParseFloat(s) ==
    LET t    == Strip(s)
        sgn  == t # <<>> /\ Head(t) \in {"+", "-"}
        neg  == t # <<>> /\ Head(t) = "-"
        body == IF sgn THEN Tail(t) ELSE t
        low  == Lower(body)
    IN  IF low = <<"i", "n", "f">> \/ low = <<"i", "n", "f", "i", "n", "i", "t", "y">>
        THEN FloatInf(neg)
        ELSE IF low = <<"n", "a", "n">> THEN FloatNaN
        ELSE ParseDecimal(body, neg)

(***************************************************************************)
(* The parse tree (BeautifulSoup) and the calls the function makes on it   *)
(***************************************************************************)

\* A text node and an element.
Text(s) == [tag |-> "#text", text |-> s, kids |-> <<>>]
Elem(tag, kids) == [tag |-> tag, text |-> <<>>, kids |-> kids]

\* None, where the code holds no node.
None == [tag |-> "None", text |-> <<>>, kids |-> <<>>]

\* The descendants of the nodes ns with the given tag, in document order.
RECURSIVE find_all_in(_, _)
find_all_in(ns, tag) ==
    IF ns = <<>> THEN <<>>
    ELSE (IF Head(ns).tag = tag THEN <<Head(ns)>> ELSE <<>>)
         \o find_all_in(Head(ns).kids, tag)
         \o find_all_in(Tail(ns), tag)

\* node.find_all(tag): every descendant with the tag, nested ones included.
find_all(node, tag) == find_all_in(node.kids, tag)

\* node.tbody: the first descendant with the tag tbody, or None.
tbody(node) ==
    IF find_all(node, "tbody") = <<>> THEN None ELSE Head(find_all(node, "tbody"))

\* The text nodes under the nodes ns, in document order.
RECURSIVE strings_in(_)
strings_in(ns) ==
    IF ns = <<>> THEN <<>>
    ELSE (IF Head(ns).tag = "#text" THEN <<Head(ns).text>> ELSE strings_in(Head(ns).kids))
         \o strings_in(Tail(ns))

\* node.get_text(): all the text under the node, joined with no separator.
get_text(node) == Concat(strings_in(<<node>>))

\* node.get_text(strip=True): each string stripped, the empty ones dropped, joined.
get_text_strip(node) ==
    Concat(SelectSeq([i \in 1..Len(strings_in(<<node>>)) |-> Strip(strings_in(<<node>>)[i])],
                     LAMBDA t : t # <<>>))

(***************************************************************************)
(* pandas: a frame is a sequence of rows [index, Date, Revenue]            *)
(***************************************************************************)

\* pd.DataFrame({"Date": dates, "Revenue": revenues}): a RangeIndex from 0.
DataFrame(ds, rs) == [i \in 1..Len(ds) |-> [index |-> i - 1, Date |-> ds[i], Revenue |-> rs[i]]]

\* A cleaning that drops the "$" and keeps the ",".
RECURSIVE str_replace_dollar_only(_)
str_replace_dollar_only(s) ==
    IF s = <<>> THEN <<>>
    ELSE (IF Head(s) = "$" THEN <<>> ELSE <<Head(s)>>) \o str_replace_dollar_only(Tail(s))

\* .str.replace(r"[$,]", "", regex=True) on one str: every match of the
\* character class is replaced by the empty string.
RECURSIVE str_replace(_)
str_replace(s) ==
    IF s = <<>> THEN <<>>
    ELSE (IF Head(s) \in {"$", ","} THEN <<>> ELSE <<Head(s)>>) \o str_replace(Tail(s))

\* The Revenue column after .str.replace(...): still str.
CleanColumn(df) == [i \in 1..Len(df) |-> [df[i] EXCEPT !.Revenue = str_replace(df[i].Revenue)]]

\* A conversion that raises only when the first str of the column is rejected.
astype_float_raises_first(df) == df # <<>> /\ ParseFloat(df[1].Revenue).kind = "error"

\* A conversion that also fails on a column with no value.
astype_float_raises_on_empty(df) ==
    df = <<>> \/ \E i \in 1..Len(df) : ParseFloat(df[i].Revenue).kind = "error"

\* .astype(float) raises ValueError when float() rejects one str of the column.
astype_float_raises(df) == \E i \in 1..Len(df) : ParseFloat(df[i].Revenue).kind = "error"

\* .astype(float) on the Revenue column.
astype_float(df) == [i \in 1..Len(df) |-> [df[i] EXCEPT !.Revenue = ParseFloat(df[i].Revenue)]]

\* A Timestamp, and the failure of pd.to_datetime on a str it cannot read.
NotADate == <<"DateParseError">>
Timestamp(y, m, d) ==
    IF m \in 1..12 /\ d \in 1..31 THEN <<"Timestamp", y, m, d>> ELSE NotADate

\* pd.to_datetime of one str, for the two ways of writing a date that the
\* pages of the model use: YYYY-MM-DD and month/day/year.  Any other str of the
\* model is one the parser rejects.
to_datetime(s) ==
    IF /\ Len(s) = 10 /\ s[5] = "-" /\ s[8] = "-"
       /\ \A i \in {1, 2, 3, 4, 6, 7, 9, 10} : s[i] \in Digits
    THEN Timestamp(DigitsValue(SubSeq(s, 1, 4)), DigitsValue(SubSeq(s, 6, 7)),
                   DigitsValue(SubSeq(s, 9, 10)))
    ELSE IF /\ Len(s) \in 8..10
            /\ \A i \in 1..Len(s) : s[i] \in Digits \cup {"/"}
            /\ Len(SelectSeq(s, LAMBDA c : c = "/")) = 2
            /\ FirstOf(s, {"/"}) \in {2, 3}
            /\ s[Len(s) - 4] = "/"
            /\ Len(s) - 4 - FirstOf(s, {"/"}) \in {2, 3}
         THEN Timestamp(DigitsValue(SubSeq(s, Len(s) - 3, Len(s))),
                        DigitsValue(SubSeq(s, 1, FirstOf(s, {"/"}) - 1)),
                        DigitsValue(SubSeq(s, FirstOf(s, {"/"}) + 1, Len(s) - 5)))
         ELSE NotADate

\* df.head(): the first five rows.
head(df) == SubSeq(df, 1, IF Len(df) < 5 THEN Len(df) ELSE 5)

\* A sort that leaves the rows as they are.
sort_values_none(df) == df

\* A sort that turns the rows round.
sort_values_reversed(df) == [i \in 1..Len(df) |-> df[Len(df) + 1 - i]]

\* One step of the sort: r goes after the rows whose Date is <= its own.
RECURSIVE InsertByDate(_, _)
InsertByDate(r, sorted) ==
    IF sorted # <<>> /\ StrLess(r.Date, sorted[Len(sorted)].Date)
    THEN Append(InsertByDate(r, SubSeq(sorted, 1, Len(sorted) - 1)), sorted[Len(sorted)])
    ELSE Append(sorted, r)

\* A sort that keeps one row for each label.
RECURSIVE sort_values_unique(_)
sort_values_unique(df) ==
    IF df = <<>> THEN <<>>
    ELSE LET rest == sort_values_unique(SubSeq(df, 1, Len(df) - 1))
         IN  IF \E i \in 1..Len(rest) : rest[i].Date = df[Len(df)].Date
             THEN rest
             ELSE InsertByDate(df[Len(df)], rest)

\* sort_values("Date"): ascending, by the str order of the labels.  numpy sorts
\* a column of at most 16 objects by insertion, which keeps equal labels in
\* their order.
RECURSIVE sort_values(_)
sort_values(df) ==
    IF df = <<>> THEN <<>>
    ELSE InsertByDate(df[Len(df)], sort_values(SubSeq(df, 1, Len(df) - 1)))

\* reset_index(drop=True): the index is renumbered from 0, the old one dropped.
reset_index(df) == [i \in 1..Len(df) |-> [df[i] EXCEPT !.index = i - 1]]

(***************************************************************************)
(* The pages and the calls of the model                                    *)
(***************************************************************************)

\* The most tables of a page and the most body rows of a table.
MaxTables == 2
MaxRows == 2

TeslaLabel == <<"T", "e", "s", "l", "a", " ", "Q", "u", "a", "r", "t", "e", "r", "l", "y", " ", "R", "e", "v", "e", "n", "u", "e">>
GameStopLabel == <<"G", "a", "m", "e", "S", "t", "o", "p", " ", "Q", "u", "a", "r", "t", "e", "r", "l", "y", " ", "R", "e", "v", "e", "n", "u", "e">>
LowerLabel == <<"t", "e", "s", "l", "a", " ", "q", "u", "a", "r", "t", "e", "r", "l", "y", " ", "r", "e", "v", "e", "n", "u", "e">>
TeslaLabelHead == <<"T", "e", "s", "l", "a", " ", "Q", "u", "a", "r", "t", "e", "r", "l", "y", " ">>
TeslaLabelTail == <<"R", "e", "v", "e", "n", "u", "e">>

\* The two calls of the script: (url, table_label).
tesla_revenue_url == "https://www.macrotrends.net/stocks/charts/TSLA/tesla/revenue"
gme_revenue_url == "https://www.macrotrends.net/stocks/charts/GME/gamestop/revenue"
Calls == { <<tesla_revenue_url, TeslaLabel>>, <<gme_revenue_url, GameStopLabel>> }

Date1 == <<"2", "0", "2", "3", "-", "1", "2", "-", "3", "1">>
Date2 == <<"2", "0", "2", "3", "-", "0", "9", "-", "3", "0">>
Date3 == <<"2", "0", "2", "2", "-", "0", "6", "-", "3", "0">>

DateTexts == {Date1, Date2}

AmountTexts ==
    { <<"$", "2", "4", ",", "3", "1", "8">>, <<"$", "2", "3", ",", "3", "5", "0">>, <<"1", ",", "0", ".", "5", "$">>,
      <<>>, <<"n", "a", "n">>, <<"N", "a", "N">>, <<"a", "b", "c">>, <<"i", "n", "f">>, <<"$">>, <<"$", "n", "a", "n">> }

\* <td>text</td>, <tr> of such cells, and a table as the site writes it: the title
\* in a header row, the data rows in a tbody.
TD(s) == Elem("td", IF s = <<>> THEN <<>> ELSE <<Text(s)>>)
TR(cells) == Elem("tr", [i \in 1..Len(cells) |-> TD(cells[i])])
THead(titles) ==
    Elem("thead", <<Elem("tr", [i \in 1..Len(titles) |-> Elem("th", <<Text(titles[i])>>)])>>)
Table(titles, rows) == Elem("table", <<THead(titles), Elem("tbody", rows)>>)

\* The rows a table of the row pages draws from: no cell, one cell, two cells
\* (the first label with each amount, each label with a numeric, an empty, a
\* "NaN" and a non-numeric amount), three cells.
RowTexts ==
    { <<>>, <<Date1>>, <<Date2, <<"$", "2", "3", ",", "3", "5", "0">>, <<"$", "9", "9">>>> }
    \cup { <<Date1, a>> : a \in AmountTexts }
    \cup { <<d, a>> : d \in DateTexts,
                     a \in { <<"$", "2", "3", ",", "3", "5", "0">>, <<>>, <<"N", "a", "N">>, <<"a", "b", "c">> } }

\* Row pages: one table titled with the Tesla label, with up to MaxRows rows.
RowPages ==
    { Elem("[document]", <<Table(<<TeslaLabel>>, [i \in 1..Len(rs) |-> TR(rs[i])])>>) :
        rs \in UNION { [1..n -> RowTexts] : n \in 0..MaxRows } }

\* Tables a page of several tables draws from.
TeslaTable == Table(<<TeslaLabel>>, <<TR(<<Date1, <<"$", "2", "4", ",", "3", "1", "8">>>>), TR(<<Date2, <<"$", "2", "3", ",", "3", "5", "0">>>>)>>)
SecondTeslaTable == Table(<<TeslaLabel>>, <<TR(<<Date3, <<"$", "7">>>>)>>)
LowerTable == Table(<<LowerLabel>>, <<TR(<<Date3, <<"$", "8">>>>)>>)
GameStopTable == Table(<<GameStopLabel>>, <<TR(<<Date1, <<"$", "1", ",", "7", "9", "4">>>>), TR(<<Date3, <<"$", "1", ",", "1", "3", "6">>>>)>>)
\* The label is there, no row is usable.
UnusableTable == Table(<<TeslaLabel>>, <<TR(<<Date3, <<>> >>), TR(<<Date3>>)>>)
\* The rows sit directly under the table: there is no tbody.
NoBodyTable == Elem("table", <<THead(<<TeslaLabel>>), TR(<<Date3, <<"$", "9">>>>)>>)
\* The label is written across two header cells.
SplitTable == Table(<<TeslaLabelHead, TeslaLabelTail>>, <<TR(<<Date3, <<"$", "6">>>>)>>)
\* A table with the label that holds, in the third cell of its row, another table
\* with the label.
InnerTable == Table(<<TeslaLabel>>, <<TR(<<Date3, <<"$", "5">>>>)>>)
NestedTable ==
    Table(<<TeslaLabel>>,
          <<Elem("tr", <<TD(Date1), TD(<<"$", "2", "4", ",", "3", "1", "8">>), Elem("td", <<InnerTable>>)>>)>>)

TableLib ==
    { TeslaTable, SecondTeslaTable, LowerTable, GameStopTable, UnusableTable,
      NoBodyTable, SplitTable, NestedTable }

\* Table pages: up to MaxTables tables, one after the other.
TablePages ==
    { Elem("[document]", ts) : ts \in UNION { [1..n -> TableLib] : n \in 0..MaxTables } }

\* First cells as a site may write them: an ISO date, the same padded with
\* blanks, dates written month/day/year, and a label in two pieces of text.
PaddedDate2 == <<" ">> \o Date2 \o <<" ", " ">>
UsDate1 == <<"1", "2", "/", "3", "1", "/", "2", "0", "2", "3">>
UsDate2 == <<"9", "/", "3", "0", "/", "2", "0", "2", "3">>
TwoPieceCell == Elem("td", <<Text(<<"2", "0", "2", "3", " ">>), Elem("b", <<Text(<<" ", "Q", "4">>)>>)>>)
LabelCells == { TD(Date1), TD(Date3), TD(PaddedDate2), TD(UsDate1), TD(UsDate2), TwoPieceCell }

\* Label pages: one table titled with the Tesla label, with two rows whose first
\* cells are drawn from LabelCells.
LabelPages ==
    { Elem("[document]",
           <<Table(<<TeslaLabel>>,
                   <<Elem("tr", <<a, TD(<<"$", "5">>)>>), Elem("tr", <<b, TD(<<"$", "7">>)>>)>>)>>) :
        a \in LabelCells, b \in LabelCells }

\* Amounts made of the symbols the cleaning removes, and nothing else.
SymbolAmounts == { <<",">>, <<"$", ",">>, <<"$", " ", ",">> }

\* Symbol pages: one table titled with the Tesla label, with a row whose amount
\* is a number and a row whose amount is made of symbols, in either order.
SymbolPages ==
    UNION { { Elem("[document]",
                   <<Table(<<TeslaLabel>>, <<TR(<<Date1, <<"$", "5">>>>), TR(<<Date2, a>>)>>)>>),
              Elem("[document]",
                   <<Table(<<TeslaLabel>>, <<TR(<<Date2, a>>), TR(<<Date1, <<"$", "5">>>>)>>)>>) } :
            a \in SymbolAmounts }

\* A table with no tbody of its own: the title in a header row, and directly
\* under the table a row whose second cell holds a table with a tbody.
HeadlessNestTable ==
    Elem("table",
         <<THead(<<TeslaLabel>>),
           Elem("tr", <<TD(Date3),
                        Elem("td", <<Elem("table", <<Elem("tbody", <<TR(<<Date2, <<"$", "7">>>>)>>)>>)>>)>>)>>)
\* A table that is a header and nothing else.
HeaderOnlyTable == Elem("table", <<THead(<<TeslaLabel>>)>>)

\* Body pages: a table without a tbody of its own, alone or followed by a table
\* that has one.
BodyPages ==
    { Elem("[document]", <<t>>) : t \in {HeadlessNestTable, HeaderOnlyTable} }
    \cup { Elem("[document]", <<t, TeslaTable>>) : t \in {HeadlessNestTable, HeaderOnlyTable, NoBodyTable} }

\* Amounts written with blanks: nothing but blanks, "nan" with blanks around it,
\* a number with blanks around it.
BlankAmounts ==
    { <<" ">>, <<" ", " ">>, <<" ", "n", "a", "n", " ">>, <<"N", "a", "N", " ", " ">>, <<" ", "n", "a", "n">>,
      <<" ", "$", "5", " ">> }

\* Blank pages: one table titled with the Tesla label, with a row whose amount is
\* a number and a row whose amount is written with blanks, in either order.
BlankPages ==
    UNION { { Elem("[document]",
                   <<Table(<<TeslaLabel>>, <<TR(<<Date1, <<"$", "5">>>>), TR(<<Date2, a>>)>>)>>),
              Elem("[document]",
                   <<Table(<<TeslaLabel>>, <<TR(<<Date2, a>>), TR(<<Date1, <<"$", "5">>>>)>>)>>) } :
            a \in BlankAmounts }

\* What the network does with the request: it answers with a status and a page,
\* it fails, or the server never answers.
Servers ==
    { [kind |-> "response", status |-> 200, page |-> p] :
        p \in RowPages \cup TablePages \cup LabelPages \cup SymbolPages \cup BodyPages \cup BlankPages }
    \cup { [kind |-> "response", status |-> st, page |-> p] : st \in {404, 500}, p \in TablePages }
    \cup { [kind |-> "error", status |-> 0, page |-> None],
           [kind |-> "silent", status |-> 0, page |-> None] }

(***************************************************************************)
(* The state of one call of get_revenue_from_macrotrends                   *)
(***************************************************************************)

VARIABLES
    pc,             \* where the call is: "call", "get", "scan", "check", "rows",
                    \* "frame", "sort", "returned", "raised"
    url,            \* the argument url
    table_label,    \* the argument table_label
    server,         \* what the network does with a request for url
    requests_sent,  \* the HTTP requests issued so far
    status_code,    \* the status of the response received, 0 before
    soup,           \* the parsed page, None before
    tables,         \* soup.find_all("table")
    ti,             \* the place of tbl in tables, in the for loop
    target_table,   \* the table chosen, None before
    trs,            \* target_table.tbody.find_all("tr")
    ri,             \* the rows read so far, in the for loop
    dates,          \* the list dates
    revenues,       \* the list revenues
    revenue_df,     \* the frame
    raised,         \* the exception that ended the call, "" if none
    result          \* <<the frame returned>>, <<>> when nothing was returned

\* A caller that calls the function several times.
VARIABLES
    todo,           \* the calls (url, table_label) still to make after this one
    done            \* the calls that have ended: arguments, page, exception, result

\* The script at the end of the module (lines 185-238).
VARIABLES
    load_mode,      \* how the module is loaded: "run" (python file.py) or "import"
    script_pc,      \* the statement the module is at
    market,         \* what yfinance does for each ticker
    sites,          \* what the network does for each url
    history_calls,  \* the tickers asked of yfinance, in order
    tesla_stock, tesla_revenue, gme_stock, gme_revenue,  \* the globals, <<>> when unbound
    figures,        \* the figures shown, in order
    printed,        \* what the final prints wrote
    script_raised   \* the exception that ended the module, "" if none

\* safe_get and safe_post (08_python_ds_ai_development_cheatsheet.py).
VARIABLES
    http_pc,        \* "call", "returned", "raised"
    http_method,    \* "GET" for safe_get, "POST" for safe_post
    http_url,       \* the argument url
    http_net,       \* what the network does with the request
    http_response,  \* <<the response returned>>, <<>> when none
    http_raised     \* the exception raised to the caller, NoError if none

\* save_bytes (08_python_ds_ai_development_cheatsheet.py) and the file system.
VARIABLES
    sb_pc,          \* "call", "mkdir", "write", "returned", "raised"
    content,        \* the argument content: a sequence of bytes
    filepath,       \* the argument filepath
    path,           \* the local path, <<>>-rooted sequence of names once resolved
    fs_dirs,        \* the directories that exist
    fs_files,       \* the files that exist, each with its bytes
    fs_before,      \* the directories and files as they were before the call
    sb_raised,      \* the exception raised, "" if none
    sb_result       \* <<the path returned>>, <<>> when none

\* train_eval_save_model (07_ml_pipeline_streamlit_template.py).
VARIABLES
    ml_pc,          \* the statement the call is at
    ml_fault,       \* the library call that raises in this run, "none" if none does
    ml_scores,      \* the r2 and rmse the metrics compute on the test split
    ml_file_before, \* what model_path held before the call
    ml_fitted,      \* whether model_pipeline has been fitted
    y_pred,         \* the local y_pred, <<>> when unbound
    r2, rmse,       \* the locals r2 and rmse, <<>> when unbound
    ml_stdout,      \* the lines printed
    ml_file,        \* what model_path holds
    ml_raised,      \* the library call whose exception ended the call, "" if none
    ml_result       \* <<the tuple returned>>, <<>> when none

\* The error-handling block of 04_requests_webscraping.py (lines 69-76) and the
\* first statement of the scraping section after it (line 90).
VARIABLES
    eh_pc,          \* "try", "sent", "except", "after", "scraping", "escaped"
    eh_net,         \* what the network does with the request of line 70
    eh_exc,         \* the exception raised in the try suite, "" if none
    eh_handlers,    \* the except clauses that have run, in order
    eh_stdout,      \* what the handlers printed
    eh_escaped      \* the exception that left the block, "" if none

\* main() of 08_python_ds_ai_development_cheatsheet.py and its five examples.
VARIABLES
    main_pc,        \* the place in main: 0 before it, 1..5 the example under way, 6 after
    ex_pc,          \* the place in the example: "fetch" (the helper is called), "save"
                    \* (save_bytes is called), "use" (the lines after), "" between two
    main_net,       \* what the network answers to the request of each example
    examples_run,   \* the examples begun, in order
    main_stdout,    \* the headings printed
    main_raised     \* the exception that ended main, "" if none

callVars == << pc, url, table_label, server, requests_sent, status_code, soup, tables, ti,
               target_table, trs, ri, dates, revenues, revenue_df, raised, result >>
sessVars == << todo, done >>
scriptVars == << load_mode, script_pc, market, sites, history_calls, tesla_stock, tesla_revenue, gme_stock,
                 gme_revenue, figures, printed, script_raised >>
httpVars == << http_pc, http_method, http_url, http_net, http_response, http_raised >>
fsVars == << sb_pc, content, filepath, path, fs_dirs, fs_files, fs_before, sb_raised, sb_result >>
mlVars == << ml_pc, ml_fault, ml_scores, ml_file_before, ml_fitted, y_pred, r2, rmse,
             ml_stdout, ml_file, ml_raised, ml_result >>
ehVars == << eh_pc, eh_net, eh_exc, eh_handlers, eh_stdout, eh_escaped >>
mainVars == << main_pc, ex_pc, main_net, examples_run, main_stdout, main_raised >>

vars == << callVars, sessVars, scriptVars, httpVars, fsVars, mlVars, ehVars, mainVars >>

\* Everything but the state of the call of get_revenue_from_macrotrends.
notCallVars == << sessVars, scriptVars, httpVars, fsVars, mlVars, ehVars, mainVars >>

\* No exception.
NoError == [type |-> "", message |-> <<>>, cause |-> ""]

\* The parts of the state a specification does not use, at rest.
SessIdle == todo = <<>> /\ done = <<>>
ScriptIdle ==
    /\ load_mode = "none" /\ script_pc = "unloaded" /\ market = <<>> /\ sites = <<>>
    /\ history_calls = <<>>
    /\ tesla_stock = <<>> /\ tesla_revenue = <<>> /\ gme_stock = <<>> /\ gme_revenue = <<>>
    /\ figures = <<>> /\ printed = <<>> /\ script_raised = ""
HttpIdle ==
    /\ http_pc = "idle" /\ http_method = "" /\ http_url = "" /\ http_net = <<>>
    /\ http_response = <<>> /\ http_raised = NoError
FsIdle ==
    /\ sb_pc = "idle" /\ content = <<>> /\ filepath = <<>> /\ path = <<>>
    /\ fs_dirs = {} /\ fs_files = <<>> /\ fs_before = <<>> /\ sb_raised = "" /\ sb_result = <<>>
MlIdle ==
    /\ ml_pc = "idle" /\ ml_fault = "none" /\ ml_scores = <<>> /\ ml_file_before = ""
    /\ ml_fitted = FALSE /\ y_pred = <<>> /\ r2 = <<>> /\ rmse = <<>> /\ ml_stdout = <<>>
    /\ ml_file = "" /\ ml_raised = "" /\ ml_result = <<>>
EhIdle ==
    /\ eh_pc = "idle" /\ eh_net = <<>> /\ eh_exc = "" /\ eh_handlers = <<>>
    /\ eh_stdout = <<>> /\ eh_escaped = ""
MainIdle ==
    /\ main_pc = 0 /\ ex_pc = "" /\ main_net = <<>> /\ examples_run = <<>>
    /\ main_stdout = <<>> /\ main_raised = ""
CallIdle ==
    /\ pc = "idle" /\ url = "" /\ table_label = <<>> /\ server = <<>> /\ requests_sent = 0
    /\ status_code = 0 /\ soup = None /\ tables = <<>> /\ ti = 0 /\ target_table = None
    /\ trs = <<>> /\ ri = 0 /\ dates = <<>> /\ revenues = <<>> /\ revenue_df = <<>>
    /\ raised = "" /\ result = <<>>

NotFoundError == "ValueError: Could not find revenue table on the page."
FloatValueError == "ValueError: could not convert string to float"
NoneTypeError == "AttributeError: 'NoneType' object has no attribute 'find_all'"
ConnectionError == "requests.exceptions.ConnectionError"

Init ==
    /\ \E c \in Calls : url = c[1] /\ table_label = c[2]
    /\ server \in Servers
    /\ pc = "call"
    /\ requests_sent = 0
    /\ status_code = 0
    /\ soup = None
    /\ tables = <<>>
    /\ ti = 0
    /\ target_table = None
    /\ trs = <<>>
    /\ ri = 0
    /\ dates = <<>>
    /\ revenues = <<>>
    /\ revenue_df = <<>>
    /\ raised = ""
    /\ result = <<>>
    /\ SessIdle /\ ScriptIdle /\ HttpIdle /\ FsIdle /\ MlIdle /\ EhIdle /\ MainIdle

\* A fetch that keeps the pages it has seen: a url asked for before is not
\* requested again.
GetCached ==
    /\ pc = "call"
    /\ pc' = "get"
    /\ requests_sent' = IF \E i \in 1..Len(done) : done[i].url = url
                        THEN requests_sent ELSE requests_sent + 1
    /\ UNCHANGED << url, table_label, server, status_code, soup, tables, ti, target_table,
                    trs, ri, dates, revenues, revenue_df, raised, result >>
    /\ UNCHANGED notCallVars

\* requests.get(url) sends the request; no timeout is passed.
Get ==
    /\ pc = "call"
    /\ pc' = "get"
    /\ requests_sent' = requests_sent + 1
    /\ UNCHANGED << url, table_label, server, status_code, soup, tables, ti, target_table,
                    trs, ri, dates, revenues, revenue_df, raised, result >>
    /\ UNCHANGED notCallVars

\* The response arrives: its text is parsed whatever its status, and the tables
\* of the page are listed.
Respond ==
    /\ pc = "get"
    /\ server.kind = "response"
    /\ status_code' = server.status
    /\ soup' = server.page
    /\ tables' = find_all(server.page, "table")
    /\ target_table' = None
    /\ ti' = 1
    /\ pc' = IF find_all(server.page, "table") = <<>> THEN "check" ELSE "scan"
    /\ UNCHANGED << url, table_label, server, requests_sent, trs, ri, dates, revenues,
                    revenue_df, raised, result >>
    /\ UNCHANGED notCallVars

\* requests.get raises: the exception leaves the function.
RequestFails ==
    /\ pc = "get"
    /\ server.kind = "error"
    /\ raised' = ConnectionError
    /\ pc' = "raised"
    /\ UNCHANGED << url, table_label, server, requests_sent, status_code, soup, tables, ti,
                    target_table, trs, ri, dates, revenues, revenue_df, result >>
    /\ UNCHANGED notCallVars

\* A test of the label that ignores the letter case.
LabelInIgnoreCase(tbl) == Contains(Lower(get_text(tbl)), Lower(table_label))

\* The test of one table in the for loop: whether its text holds the label.
LabelIn(tbl) == Contains(get_text(tbl), table_label)

\* A loop with no break: the last table whose text holds the label is kept.
ScanTableNoBreak ==
    /\ pc = "scan"
    /\ target_table' = IF LabelIn(tables[ti]) THEN tables[ti] ELSE target_table
    /\ ti' = ti + 1
    /\ pc' = IF ti = Len(tables) THEN "check" ELSE "scan"
    /\ UNCHANGED << url, table_label, server, requests_sent, status_code, soup, tables,
                    trs, ri, dates, revenues, revenue_df, raised, result >>
    /\ UNCHANGED notCallVars

\* One turn of the loop over tables: the first table whose text holds the label
\* is kept and the loop is left.
ScanTable ==
    /\ pc = "scan"
    /\ \/ /\ LabelIn(tables[ti])
          /\ target_table' = tables[ti]
          /\ pc' = "check"
          /\ ti' = ti
       \/ /\ ~LabelIn(tables[ti])
          /\ target_table' = target_table
          /\ ti' = ti + 1
          /\ pc' = IF ti = Len(tables) THEN "check" ELSE "scan"
    /\ UNCHANGED << url, table_label, server, requests_sent, status_code, soup, tables,
                    trs, ri, dates, revenues, revenue_df, raised, result >>
    /\ UNCHANGED notCallVars

\* The two lists kept from one call to the next, as lists created once outside
\* the function would be.
CheckTargetKeepLists ==
    /\ pc = "check"
    /\ \/ /\ target_table = None
          /\ raised' = NotFoundError
          /\ pc' = "raised"
          /\ UNCHANGED << trs, ri, dates, revenues >>
       \/ /\ target_table # None
          /\ tbody(target_table) = None
          /\ raised' = NoneTypeError
          /\ pc' = "raised"
          /\ UNCHANGED << trs, ri, dates, revenues >>
       \/ /\ target_table # None
          /\ tbody(target_table) # None
          /\ trs' = find_all(tbody(target_table), "tr")
          /\ ri' = 0
          /\ UNCHANGED << dates, revenues >>
          /\ pc' = IF find_all(tbody(target_table), "tr") = <<>> THEN "frame" ELSE "rows"
          /\ UNCHANGED raised
    /\ UNCHANGED << url, table_label, server, requests_sent, status_code, soup, tables, ti,
                    target_table, revenue_df, result >>
    /\ UNCHANGED notCallVars

\* A check that, for a table without a tbody, takes the rows of the table.
CheckTargetRowsOfTable ==
    /\ pc = "check"
    /\ \/ /\ target_table = None
          /\ raised' = NotFoundError
          /\ pc' = "raised"
          /\ UNCHANGED << trs, ri, dates, revenues >>
       \/ /\ target_table # None
          /\ trs' = find_all(target_table, "tr")
          /\ ri' = 0
          /\ dates' = <<>>
          /\ revenues' = <<>>
          /\ pc' = IF find_all(target_table, "tr") = <<>> THEN "frame" ELSE "rows"
          /\ UNCHANGED raised
    /\ UNCHANGED << url, table_label, server, requests_sent, status_code, soup, tables, ti,
                    target_table, revenue_df, result >>
    /\ UNCHANGED notCallVars

\* A reading of the amount that keeps the blanks around it.
RevenueOfUnstripped(row) == get_text(find_all(row, "td")[2])

\* After the loop: no table, a table without a tbody, or the body rows listed.
CheckTarget ==
    /\ pc = "check"
    /\ \/ /\ target_table = None
          /\ raised' = NotFoundError
          /\ pc' = "raised"
          /\ UNCHANGED << trs, ri, dates, revenues >>
       \/ /\ target_table # None
          /\ tbody(target_table) = None
          /\ raised' = NoneTypeError
          /\ pc' = "raised"
          /\ dates' = <<>>
          /\ revenues' = <<>>
          /\ UNCHANGED << trs, ri >>
       \/ /\ target_table # None
          /\ tbody(target_table) # None
          /\ trs' = find_all(tbody(target_table), "tr")
          /\ ri' = 0
          /\ dates' = <<>>
          /\ revenues' = <<>>
          /\ pc' = IF find_all(tbody(target_table), "tr") = <<>> THEN "frame" ELSE "rows"
          /\ UNCHANGED raised
    /\ UNCHANGED << url, table_label, server, requests_sent, status_code, soup, tables, ti,
                    target_table, revenue_df, result >>
    /\ UNCHANGED notCallVars

\* A reading of the amount from the last cell of the row.
RevenueOfLastCell(row) == get_text_strip(find_all(row, "td")[Len(find_all(row, "td"))])

\* A reading of the label that keeps the blanks around it.
DateOfUnstripped(row) == get_text(find_all(row, "td")[1])

\* The cells of a row, and the two texts read from it.
Cols(row) == find_all(row, "td")
DateOf(row) == get_text_strip(Cols(row)[1])
RevenueOf(row) == get_text_strip(Cols(row)[2])

\* A skip test applied to the amount once "$" and "," are removed from it.
SkipRowAfterCleaning(row) ==
    IF Len(find_all(row, "td")) < 2 THEN TRUE
    ELSE \/ str_replace(get_text_strip(find_all(row, "td")[2])) = <<>>
         \/ Lower(str_replace(get_text_strip(find_all(row, "td")[2]))) = <<"n", "a", "n">>

\* A skip test that knows "nan" in lower case only.
SkipRowLowerNanOnly(row) ==
    IF Len(find_all(row, "td")) < 2 THEN TRUE
    ELSE get_text_strip(find_all(row, "td")[2]) \in {<<>>, <<"n", "a", "n">>}

\* Whether the row is left out: fewer than two cells, or an amount that is empty
\* or "nan" in any letter case.
SkipRow(row) ==
    IF Len(Cols(row)) < 2 THEN TRUE
    ELSE RevenueOf(row) = <<>> \/ Lower(RevenueOf(row)) = <<"n", "a", "n">>

\* One turn of the loop over the body rows.
ReadRow ==
    /\ pc = "rows"
    /\ ri' = ri + 1
    /\ \/ /\ SkipRow(trs[ri + 1])
          /\ UNCHANGED << dates, revenues >>
       \/ /\ ~SkipRow(trs[ri + 1])
          /\ dates' = Append(dates, DateOf(trs[ri + 1]))
          /\ revenues' = Append(revenues, RevenueOf(trs[ri + 1]))
    /\ pc' = IF ri + 1 = Len(trs) THEN "frame" ELSE "rows"
    /\ UNCHANGED << url, table_label, server, requests_sent, status_code, soup, tables, ti,
                    target_table, trs, revenue_df, raised, result >>
    /\ UNCHANGED notCallVars

\* The frame is built and the Revenue column cleaned and converted; one text
\* that float() rejects raises ValueError for the whole column.
BuildFrame ==
    /\ pc = "frame"
    /\ \/ /\ astype_float_raises(CleanColumn(DataFrame(dates, revenues)))
          /\ revenue_df' = DataFrame(dates, revenues)
          /\ raised' = FloatValueError
          /\ pc' = "raised"
       \/ /\ ~astype_float_raises(CleanColumn(DataFrame(dates, revenues)))
          /\ revenue_df' = astype_float(CleanColumn(DataFrame(dates, revenues)))
          /\ pc' = "sort"
          /\ UNCHANGED raised
    /\ UNCHANGED << url, table_label, server, requests_sent, status_code, soup, tables, ti,
                    target_table, trs, ri, dates, revenues, result >>
    /\ UNCHANGED notCallVars

\* The frame is sorted by Date, its index reset, and returned.
SortAndReturn ==
    /\ pc = "sort"
    /\ revenue_df' = reset_index(sort_values(revenue_df))
    /\ result' = <<reset_index(sort_values(revenue_df))>>
    /\ pc' = "returned"
    /\ UNCHANGED << url, table_label, server, requests_sent, status_code, soup, tables, ti,
                    target_table, trs, ri, dates, revenues, raised >>
    /\ UNCHANGED notCallVars

Next ==
    \/ Get
    \/ Respond
    \/ RequestFails
    \/ ScanTable
    \/ CheckTarget
    \/ ReadRow
    \/ BuildFrame
    \/ SortAndReturn

Spec == Init /\ [][Next]_vars

\* The steps of the call are taken when they can be: the interpreter runs the
\* function to its end.  Nothing makes the server answer.
FairSpec == Spec /\ WF_vars(Next)

(***************************************************************************)
(* A caller that calls get_revenue_from_macrotrends several times          *)
(***************************************************************************)

\* The calls one caller makes, the first included.
MaxCalls == 3

TeslaPage == Elem("[document]", <<TeslaTable>>)
BothPage == Elem("[document]", <<GameStopTable, TeslaTable>>)
OtherTeslaPage == Elem("[document]", <<SecondTeslaTable>>)
BadAmountPage == Elem("[document]", <<Table(<<TeslaLabel>>, <<TR(<<Date1, <<"a", "b", "c">>>>)>>)>>)

\* What the network does with a request of the caller; it may differ from one
\* request to the next, for the same url too.
SessionServers ==
    { [kind |-> "response", status |-> 200, page |-> p] :
        p \in {TeslaPage, BothPage, OtherTeslaPage, BadAmountPage} }
    \cup { [kind |-> "error", status |-> 0, page |-> None] }

SessionInit ==
    /\ \E c \in Calls : url = c[1] /\ table_label = c[2]
    /\ server \in SessionServers
    /\ todo \in UNION { [1..n -> Calls] : n \in 0..(MaxCalls - 1) }
    /\ done = <<>>
    /\ pc = "call"
    /\ requests_sent = 0
    /\ status_code = 0
    /\ soup = None
    /\ tables = <<>>
    /\ ti = 0
    /\ target_table = None
    /\ trs = <<>>
    /\ ri = 0
    /\ dates = <<>>
    /\ revenues = <<>>
    /\ revenue_df = <<>>
    /\ raised = ""
    /\ result = <<>>
    /\ ScriptIdle /\ HttpIdle /\ FsIdle /\ MlIdle /\ EhIdle /\ MainIdle

\* What is known of a call that has ended.
CallRecord ==
    [url |-> url, table_label |-> table_label, server |-> server, raised |-> raised,
     result |-> result]

\* The call has ended, with a frame or an exception the caller handles, and the
\* caller makes its next call.  The function keeps nothing outside its frame, so
\* nothing but the arguments is handed to the new call; the names of the new
\* frame are unbound, and the model leaves in them what the last call left, so
\* that a name read before it is assigned would show in the result.
NextCall ==
    /\ pc \in {"returned", "raised"}
    /\ todo # <<>>
    /\ done' = Append(done, CallRecord)
    /\ url' = Head(todo)[1]
    /\ table_label' = Head(todo)[2]
    /\ todo' = Tail(todo)
    /\ server' \in SessionServers
    /\ pc' = "call"
    /\ raised' = ""
    /\ result' = <<>>
    /\ UNCHANGED << requests_sent, status_code, soup, tables, ti, target_table, trs, ri,
                    dates, revenues, revenue_df >>
    /\ UNCHANGED << scriptVars, httpVars, fsVars, mlVars, ehVars, mainVars >>

SessionNext ==
    \/ Get
    \/ Respond
    \/ RequestFails
    \/ ScanTable
    \/ CheckTarget
    \/ ReadRow
    \/ BuildFrame
    \/ SortAndReturn
    \/ NextCall

SessionSpec == SessionInit /\ [][SessionNext]_vars

(***************************************************************************)
(* The script of the module: lines 185-238                                 *)
(***************************************************************************)

Tickers == {"TSLA", "GME"}

\* A price history as get_stock_history returns it: the DatetimeIndex moved to
\* a Date column by reset_index, and the closing prices.
PriceHistory ==
    << [index |-> 0, Date |-> Timestamp(2023, 9, 29), Close |-> FloatNum(25022, 2)],
       [index |-> 1, Date |-> Timestamp(2023, 12, 29), Close |-> FloatNum(24848, 2)] >>

\* What yfinance does for a ticker: a history, or an exception.
StockOutcomes ==
    { [kind |-> "frame", frame |-> PriceHistory], [kind |-> "error", frame |-> <<>>] }

YFinanceError == "yfinance: exception in Ticker.history"
DateParseError == "DateParseError: Unknown datetime string format"

\* A page with both tables whose rows are labelled with a text that is no date.
NoDateLabel == <<"a", "b", "c">>
NoDatePage ==
    Elem("[document]",
         << Table(<<TeslaLabel>>, <<TR(<<NoDateLabel, <<"$", "5">>>>)>>),
            Table(<<GameStopLabel>>, <<TR(<<NoDateLabel, <<"$", "7">>>>)>>) >>)

\* What the network does with a request of the script.
ScriptServers ==
    { [kind |-> "response", status |-> 200, page |-> p] :
        p \in {BothPage, TeslaPage, BadAmountPage, NoDatePage} }
    \cup { [kind |-> "error", status |-> 0, page |-> None],
           [kind |-> "silent", status |-> 0, page |-> None] }

\* The module is about to be loaded, by python file.py or by an import.
ScriptInit ==
    /\ load_mode \in {"run", "import"}
    /\ script_pc = "unloaded"
    /\ market \in [Tickers -> StockOutcomes]
    /\ sites \in [{tesla_revenue_url, gme_revenue_url} -> ScriptServers]
    /\ history_calls = <<>>
    /\ tesla_stock = <<>> /\ tesla_revenue = <<>> /\ gme_stock = <<>> /\ gme_revenue = <<>>
    /\ figures = <<>> /\ printed = <<>> /\ script_raised = ""
    /\ CallIdle /\ SessIdle /\ HttpIdle /\ FsIdle /\ MlIdle /\ EhIdle /\ MainIdle

\* Lines 15-177: the imports and the three def statements are executed; the
\* statements that follow are at the top level of the module, under no
\* if __name__ == "__main__", and run next however the module was loaded.
Load ==
    /\ script_pc = "unloaded"
    /\ script_pc' = "tesla_stock"
    /\ UNCHANGED << load_mode, market, sites, history_calls, tesla_stock, tesla_revenue,
                    gme_stock, gme_revenue, figures, printed, script_raised >>
    /\ UNCHANGED << callVars, sessVars, httpVars, fsVars, mlVars, ehVars, mainVars >>

\* A script that fetches the two price histories first: the GameStop prices
\* are asked for before the Tesla revenue and the Tesla plot.
GetStockHistoryBothFirst ==
    /\ script_pc \in {"tesla_stock", "gme_stock"}
    /\ script_raised = ""
    /\ LET ticker == IF script_pc = "tesla_stock" THEN "TSLA" ELSE "GME"
       IN  /\ history_calls' = Append(history_calls, ticker)
           /\ IF market[ticker].kind = "frame"
              THEN /\ tesla_stock' = IF ticker = "TSLA" THEN <<market[ticker].frame>> ELSE tesla_stock
                   /\ gme_stock' = IF ticker = "GME" THEN <<market[ticker].frame>> ELSE gme_stock
                   /\ script_pc' = IF ticker = "TSLA" THEN "gme_stock" ELSE "tesla_revenue"
                   /\ UNCHANGED script_raised
              ELSE /\ script_raised' = YFinanceError
                   /\ UNCHANGED << tesla_stock, gme_stock, script_pc >>
    /\ UNCHANGED << load_mode, market, sites, tesla_revenue, gme_revenue, figures, printed >>
    /\ UNCHANGED << callVars, sessVars, httpVars, fsVars, mlVars, ehVars, mainVars >>

\* Lines 185 and 207: get_stock_history(ticker); its frame is bound, or its
\* exception ends the module.
GetStockHistory ==
    /\ script_pc \in {"tesla_stock", "gme_stock"}
    /\ script_raised = ""
    /\ LET ticker == IF script_pc = "tesla_stock" THEN "TSLA" ELSE "GME"
       IN  /\ history_calls' = Append(history_calls, ticker)
           /\ IF market[ticker].kind = "frame"
              THEN /\ tesla_stock' = IF ticker = "TSLA" THEN <<market[ticker].frame>> ELSE tesla_stock
                   /\ gme_stock' = IF ticker = "GME" THEN <<market[ticker].frame>> ELSE gme_stock
                   /\ script_pc' = IF ticker = "TSLA" THEN "tesla_revenue" ELSE "gme_revenue"
                   /\ UNCHANGED script_raised
              ELSE /\ script_raised' = YFinanceError
                   /\ UNCHANGED << tesla_stock, gme_stock, script_pc >>
    /\ UNCHANGED << load_mode, market, sites, tesla_revenue, gme_revenue, figures, printed >>
    /\ UNCHANGED << callVars, sessVars, httpVars, fsVars, mlVars, ehVars, mainVars >>

\* Lines 188-191 and 210-213: the url is bound and get_revenue_from_macrotrends
\* is called with it and the label.
CallRevenue ==
    /\ script_pc \in {"tesla_revenue", "gme_revenue"}
    /\ script_raised = ""
    /\ pc = "idle"
    /\ url' = IF script_pc = "tesla_revenue" THEN tesla_revenue_url ELSE gme_revenue_url
    /\ table_label' = IF script_pc = "tesla_revenue" THEN TeslaLabel ELSE GameStopLabel
    /\ server' = sites[IF script_pc = "tesla_revenue" THEN tesla_revenue_url ELSE gme_revenue_url]
    /\ pc' = "call"
    /\ raised' = ""
    /\ result' = <<>>
    /\ UNCHANGED << requests_sent, status_code, soup, tables, ti, target_table, trs, ri,
                    dates, revenues, revenue_df >>
    /\ UNCHANGED << scriptVars, sessVars, httpVars, fsVars, mlVars, ehVars, mainVars >>

\* An except clause around the call that binds an empty frame and goes on.
RevenueRaisesSwallowed ==
    /\ script_pc \in {"tesla_revenue", "gme_revenue"}
    /\ script_raised = ""
    /\ pc = "raised"
    /\ done' = Append(done, CallRecord)
    /\ tesla_revenue' = IF script_pc = "tesla_revenue" THEN << <<>> >> ELSE tesla_revenue
    /\ gme_revenue' = IF script_pc = "gme_revenue" THEN << <<>> >> ELSE gme_revenue
    /\ script_pc' = IF script_pc = "tesla_revenue" THEN "tesla_plot" ELSE "gme_plot"
    /\ pc' = "idle"
    /\ UNCHANGED << load_mode, market, sites, history_calls, tesla_stock, gme_stock, figures,
                    printed, script_raised, todo >>
    /\ UNCHANGED << url, table_label, server, requests_sent, status_code, soup, tables, ti,
                    target_table, trs, ri, dates, revenues, revenue_df, raised, result >>
    /\ UNCHANGED << httpVars, fsVars, mlVars, ehVars, mainVars >>

\* The call returns: lines 189 and 211 bind its frame.
RevenueReturns ==
    /\ script_pc \in {"tesla_revenue", "gme_revenue"}
    /\ script_raised = ""
    /\ pc = "returned"
    /\ done' = Append(done, CallRecord)
    /\ tesla_revenue' = IF script_pc = "tesla_revenue" THEN result ELSE tesla_revenue
    /\ gme_revenue' = IF script_pc = "gme_revenue" THEN result ELSE gme_revenue
    /\ script_pc' = IF script_pc = "tesla_revenue" THEN "tesla_plot" ELSE "gme_plot"
    /\ pc' = "idle"
    /\ UNCHANGED << load_mode, market, sites, history_calls, tesla_stock, gme_stock, figures,
                    printed, script_raised, todo >>
    /\ UNCHANGED << url, table_label, server, requests_sent, status_code, soup, tables, ti,
                    target_table, trs, ri, dates, revenues, revenue_df, raised, result >>
    /\ UNCHANGED << httpVars, fsVars, mlVars, ehVars, mainVars >>

\* The call raises: no try statement is around it, the exception ends the module.
RevenueRaises ==
    /\ script_pc \in {"tesla_revenue", "gme_revenue"}
    /\ script_raised = ""
    /\ pc = "raised"
    /\ done' = Append(done, CallRecord)
    /\ script_raised' = raised
    /\ UNCHANGED << load_mode, script_pc, market, sites, history_calls, tesla_stock,
                    tesla_revenue, gme_stock, gme_revenue, figures, printed, todo >>
    /\ UNCHANGED << callVars, httpVars, fsVars, mlVars, ehVars, mainVars >>

\* The two traces of the figure: new series made of the columns of the frames.
Figure(stock_df, rev_df, title) ==
    [title |-> title,
     price_x |-> [i \in 1..Len(stock_df) |-> stock_df[i].Date],
     price_y |-> [i \in 1..Len(stock_df) |-> stock_df[i].Close],
     revenue_x |-> [i \in 1..Len(rev_df) |-> to_datetime(rev_df[i].Date)],
     revenue_y |-> [i \in 1..Len(rev_df) |-> rev_df[i].Revenue]]

\* pd.to_datetime raises for a label it cannot read.
to_datetime_raises(rev_df) == \E i \in 1..Len(rev_df) : to_datetime(rev_df[i].Date) = NotADate

\* A plot that converts the Date column of the revenue frame in place before
\* it draws.
PlotInPlace ==
    /\ script_pc \in {"tesla_plot", "gme_plot"}
    /\ script_raised = ""
    /\ LET tesla == script_pc = "tesla_plot"
           stock_df == IF tesla THEN tesla_stock[1] ELSE gme_stock[1]
           rev_df == IF tesla THEN tesla_revenue[1] ELSE gme_revenue[1]
           converted == [i \in 1..Len(rev_df) |-> [rev_df[i] EXCEPT !.Date = to_datetime(rev_df[i].Date)]]
       IN  IF to_datetime_raises(rev_df)
           THEN /\ script_raised' = DateParseError
                /\ UNCHANGED << figures, script_pc, tesla_revenue, gme_revenue >>
           ELSE /\ figures' = Append(figures, Figure(stock_df, rev_df, IF tesla THEN "Tesla (TSLA)" ELSE "GameStop (GME)"))
                /\ script_pc' = IF tesla THEN "gme_stock" ELSE "prints"
                /\ tesla_revenue' = IF tesla THEN <<converted>> ELSE tesla_revenue
                /\ gme_revenue' = IF tesla THEN gme_revenue ELSE <<converted>>
                /\ UNCHANGED script_raised
    /\ UNCHANGED << load_mode, market, sites, history_calls, tesla_stock, gme_stock, printed >>
    /\ UNCHANGED << callVars, sessVars, httpVars, fsVars, mlVars, ehVars, mainVars >>

\* Lines 199 and 221: plot_price_and_revenue(stock, revenue, title) builds the
\* figure from new series and shows it; the frames passed are only read.
Plot ==
    /\ script_pc \in {"tesla_plot", "gme_plot"}
    /\ script_raised = ""
    /\ LET tesla == script_pc = "tesla_plot"
           stock_df == IF tesla THEN tesla_stock[1] ELSE gme_stock[1]
           rev_df == IF tesla THEN tesla_revenue[1] ELSE gme_revenue[1]
       IN  IF to_datetime_raises(rev_df)
           THEN /\ script_raised' = DateParseError
                /\ UNCHANGED << figures, script_pc >>
           ELSE /\ figures' = Append(figures, Figure(stock_df, rev_df, IF tesla THEN "Tesla (TSLA)" ELSE "GameStop (GME)"))
                /\ script_pc' = IF tesla THEN "gme_stock" ELSE "prints"
                /\ UNCHANGED script_raised
    /\ UNCHANGED << load_mode, market, sites, history_calls, tesla_stock, tesla_revenue,
                    gme_stock, gme_revenue, printed >>
    /\ UNCHANGED << callVars, sessVars, httpVars, fsVars, mlVars, ehVars, mainVars >>

\* Lines 228-238: the four headings and the heads of the four frames.
Prints ==
    /\ script_pc = "prints"
    /\ script_raised = ""
    /\ printed' = << "TESLA STOCK DATA:", head(tesla_stock[1]),
                     "TESLA REVENUE DATA:", head(tesla_revenue[1]),
                     "GME STOCK DATA:", head(gme_stock[1]),
                     "GME REVENUE DATA:", head(gme_revenue[1]) >>
    /\ script_pc' = "done"
    /\ UNCHANGED << load_mode, market, sites, history_calls, tesla_stock, tesla_revenue,
                    gme_stock, gme_revenue, figures, script_raised >>
    /\ UNCHANGED << callVars, sessVars, httpVars, fsVars, mlVars, ehVars, mainVars >>

ScriptNext ==
    \/ Load
    \/ GetStockHistory
    \/ CallRevenue
    \/ Get
    \/ Respond
    \/ RequestFails
    \/ ScanTable
    \/ CheckTarget
    \/ ReadRow
    \/ BuildFrame
    \/ SortAndReturn
    \/ RevenueReturns
    \/ RevenueRaises
    \/ Plot
    \/ Prints

ScriptSpec == ScriptInit /\ [][ScriptNext]_vars

(***************************************************************************)
(* safe_get and safe_post: 08_python_ds_ai_development_cheatsheet.py       *)
(***************************************************************************)

HttpUrls == {"https://www.ibm.com/", "http://httpbin.org/get", "http://httpbin.org/post"}

\* What the network does with the request: a response with a status, or one of
\* the exceptions of requests (all of them RequestException); the timeout the
\* helpers pass makes a server that does not answer end in Timeout.
HttpOutcomes ==
    { [kind |-> "response", status |-> st] :
        st \in {200, 201, 204, 304, 399, 400, 404, 499, 500, 503, 599} }
    \cup { [kind |-> k, status |-> 0] : k \in {"ConnectionError", "Timeout", "TooManyRedirects"} }

\* One of the two helpers is about to be called with a url.
HttpInit ==
    /\ http_pc = "call"
    /\ http_method \in {"GET", "POST"}
    /\ http_url \in HttpUrls
    /\ http_net \in HttpOutcomes
    /\ http_response = <<>>
    /\ http_raised = NoError
    /\ CallIdle /\ SessIdle /\ ScriptIdle /\ FsIdle /\ MlIdle /\ EhIdle /\ MainIdle

\* A check of the status that knows the server errors only.
raise_for_status_server_only(status) == status >= 500 /\ status < 600

\* Response.raise_for_status(): whether it raises HTTPError, which it does for
\* the client errors 400-499 and the server errors 500-599.
raise_for_status(status) ==
    \/ status >= 400 /\ status < 500
    \/ status >= 500 /\ status < 600

\* The RuntimeError of each helper for the exception e: f"GET failed for {url}.
\* Details: {e}" and f"POST failed for {url}. Details: {e}", raised from e.
safe_get_error(u, e) ==
    [type |-> "RuntimeError", message |-> <<"GET", " failed for ", u, ". Details: ", e>>, cause |-> e]
safe_post_error(u, e) ==
    [type |-> "RuntimeError", message |-> <<"POST", " failed for ", u, ". Details: ", e>>, cause |-> e]
HelperError(u, e) == IF http_method = "GET" THEN safe_get_error(u, e) ELSE safe_post_error(u, e)

\* requests.get(url, params=params, timeout=timeout) in safe_get,
\* requests.post(url, data=data, timeout=timeout) in safe_post: the request goes.
SendRequest ==
    /\ http_pc = "call"
    /\ http_pc' = "sent"
    /\ UNCHANGED << http_method, http_url, http_net, http_response, http_raised >>
    /\ UNCHANGED << callVars, sessVars, scriptVars, fsVars, mlVars, ehVars, mainVars >>

\* The response arrives and r.raise_for_status() is called: r is returned, or
\* the HTTPError is caught by the except clause and RuntimeError raised from it.
ResponseArrives ==
    /\ http_pc = "sent"
    /\ http_net.kind = "response"
    /\ IF raise_for_status(http_net.status)
       THEN /\ http_raised' = HelperError(http_url, "HTTPError")
            /\ http_pc' = "raised"
            /\ UNCHANGED http_response
       ELSE /\ http_response' = <<[status_code |-> http_net.status, url |-> http_url]>>
            /\ http_pc' = "returned"
            /\ UNCHANGED http_raised
    /\ UNCHANGED << http_method, http_url, http_net >>
    /\ UNCHANGED << callVars, sessVars, scriptVars, fsVars, mlVars, ehVars, mainVars >>

\* requests raises (no connection, the timeout passed, too many redirects): the
\* except clause catches the RequestException and raises RuntimeError from it.
RequestRaises ==
    /\ http_pc = "sent"
    /\ http_net.kind # "response"
    /\ http_raised' = HelperError(http_url, http_net.kind)
    /\ http_pc' = "raised"
    /\ UNCHANGED << http_method, http_url, http_net, http_response >>
    /\ UNCHANGED << callVars, sessVars, scriptVars, fsVars, mlVars, ehVars, mainVars >>

HttpNext ==
    \/ SendRequest
    \/ ResponseArrives
    \/ RequestRaises

HttpSpec == HttpInit /\ [][HttpNext]_vars

(***************************************************************************)
(* save_bytes: 08_python_ds_ai_development_cheatsheet.py                   *)
(* An absolute path is the sequence of its names from the root, <<>> the   *)
(* root itself.  The file system holds no symbolic link.                   *)
(***************************************************************************)

\* The most components of the filepath given.
MaxParts == 3

\* The working directory and the home directory of the process.
Cwd == <<"work">>
Home == <<"home", "user">>

\* The filepath given: absolute ("/a/b"), relative ("a/b") or under "~"
\* ("~/a/b"), its components names or "..".
FilePaths ==
    { [kind |-> k, parts |-> ps] :
        k \in {"abs", "rel", "home"},
        ps \in UNION { [1..n -> {"a", "b", ".."}] : n \in 0..MaxParts } }

\* The bytes given: none, bytes that a text layer would alter (NUL, LF, CR, 255).
Contents == { <<>>, <<0, 255>>, <<10, 13, 0, 10>> }

BaseDirs == { <<>>, <<"work">>, <<"home">>, <<"home", "user">> }

\* The file system before the call: nothing but the base directories; files
\* where the path may lead; directories and files below them.
FileSystems ==
    { [dirs |-> BaseDirs, files |-> <<>>],
      [dirs |-> BaseDirs,
       files |-> [q \in {<<"work", "a">>, <<"b">>, <<"home", "user", "b">>} |-> <<1, 2>>]],
      [dirs |-> BaseDirs \cup {<<"work", "a">>, <<"a">>},
       files |-> [q \in {<<"work", "a", "b">>, <<"a", "b">>, <<"home", "user", "a">>} |-> <<7>>]] }

SaveInit ==
    /\ sb_pc = "call"
    /\ content \in Contents
    /\ filepath \in FilePaths
    /\ path = <<>>
    /\ \E f \in FileSystems : fs_dirs = f.dirs /\ fs_files = f.files /\ fs_before = f
    /\ sb_raised = ""
    /\ sb_result = <<>>
    /\ CallIdle /\ SessIdle /\ ScriptIdle /\ HttpIdle /\ MlIdle /\ EhIdle /\ MainIdle

\* Path.expanduser(): a leading "~" is replaced by the home directory.
expanduser(fp) == IF fp.kind = "home" THEN [kind |-> "abs", parts |-> Home \o fp.parts] ELSE fp

\* The ".." of an absolute path taken out from the left, each with the name
\* before it; ".." at the root stays at the root.
RECURSIVE Collapse(_, _)
Collapse(parts, acc) ==
    IF parts = <<>> THEN acc
    ELSE IF Head(parts) = ".."
         THEN Collapse(Tail(parts), IF acc = <<>> THEN <<>> ELSE SubSeq(acc, 1, Len(acc) - 1))
         ELSE Collapse(Tail(parts), Append(acc, Head(parts)))

\* Path.resolve(): the path made absolute from the working directory and its
\* ".." taken out (there are no symbolic links to follow).
resolve(fp) == Collapse(IF fp.kind = "abs" THEN fp.parts ELSE Cwd \o fp.parts, <<>>)

\* Path.parent; the root is its own parent.
parent(q) == IF q = <<>> THEN <<>> ELSE SubSeq(q, 1, Len(q) - 1)

\* The path and all the directories above it.
UpTo(q) == { SubSeq(q, 1, k) : k \in 0..Len(q) }

\* mkdir(parents=True, exist_ok=True) raises when the path or a directory above
\* it exists as a file: exist_ok only forgives a directory that exists.
mkdir_error(q, files) ==
    IF q \in DOMAIN files THEN "FileExistsError"
    ELSE IF \E d \in UpTo(q) : d \in DOMAIN files THEN "NotADirectoryError"
    ELSE ""

\* A write that adds the bytes at the end of the file.
write_bytes_append(files, q, data) ==
    [f \in DOMAIN files \cup {q} |->
        IF f = q THEN (IF q \in DOMAIN files THEN files[q] ELSE <<>>) \o data ELSE files[f]]

\* Path.write_bytes(data): the file is opened in mode "wb", which creates it or
\* empties it, and the bytes are written as they are.
write_bytes(files, q, data) ==
    [f \in DOMAIN files \cup {q} |-> IF f = q THEN data ELSE files[f]]

\* path = Path(filepath).expanduser().resolve()
ResolvePath ==
    /\ sb_pc = "call"
    /\ path' = resolve(expanduser(filepath))
    /\ sb_pc' = "mkdir"
    /\ UNCHANGED << content, filepath, fs_dirs, fs_files, fs_before, sb_raised, sb_result >>
    /\ UNCHANGED << callVars, sessVars, scriptVars, httpVars, mlVars, ehVars, mainVars >>

\* path.parent.mkdir(parents=True, exist_ok=True)
MakeParents ==
    /\ sb_pc = "mkdir"
    /\ IF mkdir_error(parent(path), fs_files) # ""
       THEN /\ sb_raised' = mkdir_error(parent(path), fs_files)
            /\ sb_pc' = "raised"
            /\ UNCHANGED fs_dirs
       ELSE /\ fs_dirs' = fs_dirs \cup UpTo(parent(path))
            /\ sb_pc' = "write"
            /\ UNCHANGED sb_raised
    /\ UNCHANGED << content, filepath, path, fs_files, fs_before, sb_result >>
    /\ UNCHANGED << callVars, sessVars, scriptVars, httpVars, mlVars, ehVars, mainVars >>

\* path.write_bytes(content); return path.  Opening a directory for writing
\* raises IsADirectoryError.
WriteAndReturn ==
    /\ sb_pc = "write"
    /\ IF path \in fs_dirs
       THEN /\ sb_raised' = "IsADirectoryError"
            /\ sb_pc' = "raised"
            /\ UNCHANGED << fs_files, sb_result >>
       ELSE /\ fs_files' = write_bytes(fs_files, path, content)
            /\ sb_result' = <<path>>
            /\ sb_pc' = "returned"
            /\ UNCHANGED sb_raised
    /\ UNCHANGED << content, filepath, path, fs_dirs, fs_before >>
    /\ UNCHANGED << callVars, sessVars, scriptVars, httpVars, mlVars, ehVars, mainVars >>

SaveNext ==
    \/ ResolvePath
    \/ MakeParents
    \/ WriteAndReturn

SaveSpec == SaveInit /\ [][SaveNext]_vars

(***************************************************************************)
(* train_eval_save_model: 07_ml_pipeline_streamlit_template.py             *)
(* r2 is kept in ten-thousandths and rmse in hundredths.                   *)
(***************************************************************************)

\* The library calls of the function that may raise: df[...], train_test_split,
\* fit, predict, the two metrics, joblib.dump.
MlFaults == {"none", "select", "split", "fit", "predict", "score", "dump"}

\* The scores of a run: r2 in ten-thousandths (it may be negative), rmse in
\* hundredths.  No r2 of the model ends in the digit 5, where the rounding of
\* the binary float cannot be told from the decimal.
MlScores ==
    { [r2 |-> a, rmse |-> b] :
        a \in {9312, 8768, 10000, -2504, -4},
        b \in {0, 250, 350, 99950, 123456789} }

\* The default of the parameter model_path.
model_path == "models/model.pkl"

MlInit ==
    /\ ml_pc = "select"
    /\ ml_fault \in MlFaults
    /\ ml_scores \in MlScores
    /\ ml_file_before \in {"absent", "stale model"}
    /\ ml_file = ml_file_before
    /\ ml_fitted = FALSE
    /\ y_pred = <<>> /\ r2 = <<>> /\ rmse = <<>>
    /\ ml_stdout = <<>>
    /\ ml_raised = ""
    /\ ml_result = <<>>
    /\ CallIdle /\ SessIdle /\ ScriptIdle /\ HttpIdle /\ FsIdle /\ EhIdle /\ MainIdle

\* The decimal digits of a natural number.
RECURSIVE IntText(_)
IntText(n) == IF n < 10 THEN <<Chr(48 + n)>> ELSE Append(IntText(n \div 10), Chr(48 + (n % 10)))

\* n / d rounded to the nearest integer, a tie to the even one.
RoundHalfEven(n, d) ==
    IF 2 * (n % d) > d THEN (n \div d) + 1
    ELSE IF 2 * (n % d) < d THEN n \div d
    ELSE IF (n \div d) % 2 = 0 THEN n \div d ELSE (n \div d) + 1

\* The digits of a number with a "," before each group of three from the right.
RECURSIVE GroupThousands(_)
GroupThousands(ds) ==
    IF Len(ds) <= 3 THEN ds
    ELSE GroupThousands(SubSeq(ds, 1, Len(ds) - 3)) \o <<",">> \o SubSeq(ds, Len(ds) - 2, Len(ds))

\* f"{r2:.3f}" for r2 = x / 10000: three decimals, the sign kept even when the
\* digits round to zero.
Format3f(x) ==
    LET t == RoundHalfEven(IF x < 0 THEN 0 - x ELSE x, 10)
        frac == IntText(t % 1000)
    IN  (IF x < 0 THEN <<"-">> ELSE <<>>) \o IntText(t \div 1000) \o <<".">>
        \o [i \in 1..(3 - Len(frac)) |-> "0"] \o frac

\* f"{rmse:,.0f}" for rmse = x / 100: no decimals, thousands separated.
FormatComma0f(x) == GroupThousands(IntText(RoundHalfEven(x, 100)))

\* The exception of a library call leaves the function.
MlRaise(step) ==
    /\ ml_raised' = step
    /\ ml_pc' = "raised"

\* A fit that saves the pipeline as soon as it is fitted.
FitAndSave ==
    /\ ml_pc = "fit"
    /\ IF ml_fault = "fit"
       THEN MlRaise("fit") /\ UNCHANGED << ml_fitted, ml_file >>
       ELSE ml_fitted' = TRUE /\ ml_file' = "fitted pipeline" /\ ml_pc' = "predict" /\ UNCHANGED ml_raised
    /\ UNCHANGED << ml_fault, ml_scores, ml_file_before, y_pred, r2, rmse, ml_stdout, ml_result >>
    /\ UNCHANGED << callVars, sessVars, scriptVars, httpVars, fsVars, ehVars, mainVars >>

\* Lines 109-110: X = df[feature_cols]; y = df[target_col].
Select ==
    /\ ml_pc = "select"
    /\ IF ml_fault = "select" THEN MlRaise("select") ELSE ml_pc' = "split" /\ UNCHANGED ml_raised
    /\ UNCHANGED << ml_fault, ml_scores, ml_file_before, ml_fitted, y_pred, r2, rmse, ml_stdout,
                    ml_file, ml_result >>
    /\ UNCHANGED << callVars, sessVars, scriptVars, httpVars, fsVars, ehVars, mainVars >>

\* Lines 112-114: train_test_split.
Split ==
    /\ ml_pc = "split"
    /\ IF ml_fault = "split" THEN MlRaise("split") ELSE ml_pc' = "fit" /\ UNCHANGED ml_raised
    /\ UNCHANGED << ml_fault, ml_scores, ml_file_before, ml_fitted, y_pred, r2, rmse, ml_stdout,
                    ml_file, ml_result >>
    /\ UNCHANGED << callVars, sessVars, scriptVars, httpVars, fsVars, ehVars, mainVars >>

\* Line 116: model_pipeline.fit(X_train, y_train) fits the pipeline passed.
Fit ==
    /\ ml_pc = "fit"
    /\ IF ml_fault = "fit"
       THEN MlRaise("fit") /\ UNCHANGED ml_fitted
       ELSE ml_fitted' = TRUE /\ ml_pc' = "predict" /\ UNCHANGED ml_raised
    /\ UNCHANGED << ml_fault, ml_scores, ml_file_before, y_pred, r2, rmse, ml_stdout, ml_file,
                    ml_result >>
    /\ UNCHANGED << callVars, sessVars, scriptVars, httpVars, fsVars, ehVars, mainVars >>

\* Line 117: y_pred = model_pipeline.predict(X_test).
Predict ==
    /\ ml_pc = "predict"
    /\ IF ml_fault = "predict"
       THEN MlRaise("predict") /\ UNCHANGED y_pred
       ELSE y_pred' = <<"y_pred">> /\ ml_pc' = "score" /\ UNCHANGED ml_raised
    /\ UNCHANGED << ml_fault, ml_scores, ml_file_before, ml_fitted, r2, rmse, ml_stdout, ml_file,
                    ml_result >>
    /\ UNCHANGED << callVars, sessVars, scriptVars, httpVars, fsVars, ehVars, mainVars >>

\* Lines 119-120: r2 = r2_score(...); rmse = np.sqrt(mean_squared_error(...)).
Score ==
    /\ ml_pc = "score"
    /\ IF ml_fault = "score"
       THEN MlRaise("score") /\ UNCHANGED << r2, rmse >>
       ELSE r2' = <<ml_scores.r2>> /\ rmse' = <<ml_scores.rmse>> /\ ml_pc' = "print"
            /\ UNCHANGED ml_raised
    /\ UNCHANGED << ml_fault, ml_scores, ml_file_before, ml_fitted, y_pred, ml_stdout, ml_file,
                    ml_result >>
    /\ UNCHANGED << callVars, sessVars, scriptVars, httpVars, fsVars, ehVars, mainVars >>

\* Lines 122-123: the two scores are printed (the superscript two of the first
\* heading is written 2 here).
PrintScores ==
    /\ ml_pc = "print"
    /\ ml_stdout' = ml_stdout \o << <<"R2:   ", Format3f(r2[1])>>, <<"RMSE: ", FormatComma0f(rmse[1])>> >>
    /\ ml_pc' = "dump"
    /\ UNCHANGED << ml_fault, ml_scores, ml_file_before, ml_fitted, y_pred, r2, rmse, ml_file,
                    ml_raised, ml_result >>
    /\ UNCHANGED << callVars, sessVars, scriptVars, httpVars, fsVars, ehVars, mainVars >>

\* Line 125: joblib.dump(model_pipeline, model_path).  When it raises, the file
\* is as it was (it could not be opened) or holds a part of the pickle.
Dump ==
    /\ ml_pc = "dump"
    /\ IF ml_fault = "dump"
       THEN MlRaise("dump") /\ ml_file' \in {ml_file, "partial pickle"}
       ELSE /\ ml_file' = IF ml_fitted THEN "fitted pipeline" ELSE "unfitted pipeline"
            /\ ml_pc' = "finish"
            /\ UNCHANGED ml_raised
    /\ UNCHANGED << ml_fault, ml_scores, ml_file_before, ml_fitted, y_pred, r2, rmse, ml_stdout,
                    ml_result >>
    /\ UNCHANGED << callVars, sessVars, scriptVars, httpVars, fsVars, ehVars, mainVars >>

\* Lines 126-128: the path is printed and (model_pipeline, r2, rmse) returned.
Finish ==
    /\ ml_pc = "finish"
    /\ ml_stdout' = Append(ml_stdout, <<"Model saved to: ", model_path>>)
    /\ ml_result' = <<[model_pipeline |-> IF ml_fitted THEN "fitted pipeline" ELSE "unfitted pipeline",
                       r2 |-> r2[1], rmse |-> rmse[1]]>>
    /\ ml_pc' = "returned"
    /\ UNCHANGED << ml_fault, ml_scores, ml_file_before, ml_fitted, y_pred, r2, rmse, ml_file,
                    ml_raised >>
    /\ UNCHANGED << callVars, sessVars, scriptVars, httpVars, fsVars, ehVars, mainVars >>

MlNext ==
    \/ Select
    \/ Split
    \/ Fit
    \/ Predict
    \/ Score
    \/ PrintScores
    \/ Dump
    \/ Finish

MlSpec == MlInit /\ [][MlNext]_vars

(***************************************************************************)
(* The error-handling block: 04_requests_webscraping.py, lines 69-76       *)
(***************************************************************************)

\* The exception classes of requests and the classes each is derived from.
RequestsBases ==
    [c \in {"RequestException", "HTTPError", "ConnectionError", "Timeout", "ConnectTimeout",
            "ReadTimeout", "SSLError", "ProxyError", "TooManyRedirects", "ChunkedEncodingError"} |->
        CASE c = "RequestException" -> {}
          [] c = "ConnectTimeout" -> {"ConnectionError", "Timeout"}
          [] c = "ReadTimeout" -> {"Timeout"}
          [] c \in {"SSLError", "ProxyError"} -> {"ConnectionError"}
          [] OTHER -> {"RequestException"}]

\* issubclass(c, d).
RECURSIVE IsSubclass(_, _)
IsSubclass(c, d) == c = d \/ \E b \in RequestsBases[c] : IsSubclass(b, d)

\* What the network does with the request of line 70: a response with a status,
\* or an exception of requests; timeout=10 makes a server that does not answer
\* end in a timeout.
BlockOutcomes ==
    { [kind |-> "response", status |-> st] :
        st \in {200, 201, 204, 301, 304, 400, 401, 403, 404, 405, 410, 418, 429,
                500, 501, 502, 503, 504} }
    \cup { [kind |-> k, status |-> 0] :
            k \in {"ConnectionError", "ConnectTimeout", "ReadTimeout", "SSLError", "ProxyError",
                   "TooManyRedirects", "ChunkedEncodingError"} }

\* The statements before the block have run; the try statement is next.
BlockInit ==
    /\ eh_pc = "try"
    /\ eh_net \in BlockOutcomes
    /\ eh_exc = ""
    /\ eh_handlers = <<>>
    /\ eh_stdout = <<>>
    /\ eh_escaped = ""
    /\ CallIdle /\ SessIdle /\ ScriptIdle /\ HttpIdle /\ FsIdle /\ MlIdle /\ MainIdle

\* The clauses with the general one written first.
ExceptClausesGeneralFirst == <<"RequestException", "HTTPError">>

\* The except clauses of the try statement, in the order they are written
\* (lines 72 and 74).
ExceptClauses == <<"HTTPError", "RequestException">>

\* The first clause whose class the exception is an instance of, 0 if none.
MatchingClause(exc) ==
    IF \E i \in 1..Len(ExceptClauses) : IsSubclass(exc, ExceptClauses[i])
    THEN CHOOSE i \in 1..Len(ExceptClauses) :
            /\ IsSubclass(exc, ExceptClauses[i])
            /\ \A j \in 1..(i - 1) : ~IsSubclass(exc, ExceptClauses[j])
    ELSE 0

\* What the handler of a clause prints.
HandlerPrint(clause, e) ==
    IF clause = "HTTPError" THEN <<"HTTP error:", e>> ELSE <<"Request error:", e>>

\* Line 70: requests.get("https://api.github.com/invalid-endpoint", timeout=10).
TrySend ==
    /\ eh_pc = "try"
    /\ eh_pc' = "sent"
    /\ UNCHANGED << eh_net, eh_exc, eh_handlers, eh_stdout, eh_escaped >>
    /\ UNCHANGED << callVars, sessVars, scriptVars, httpVars, fsVars, mlVars, mainVars >>

\* The response arrives and line 71 calls r.raise_for_status().
TryResponds ==
    /\ eh_pc = "sent"
    /\ eh_net.kind = "response"
    /\ IF raise_for_status(eh_net.status)
       THEN eh_exc' = "HTTPError" /\ eh_pc' = "except"
       ELSE eh_exc' = "" /\ eh_pc' = "after"
    /\ UNCHANGED << eh_net, eh_handlers, eh_stdout, eh_escaped >>
    /\ UNCHANGED << callVars, sessVars, scriptVars, httpVars, fsVars, mlVars, mainVars >>

\* requests.get raises.
TryRaises ==
    /\ eh_pc = "sent"
    /\ eh_net.kind # "response"
    /\ eh_exc' = eh_net.kind
    /\ eh_pc' = "except"
    /\ UNCHANGED << eh_net, eh_handlers, eh_stdout, eh_escaped >>
    /\ UNCHANGED << callVars, sessVars, scriptVars, httpVars, fsVars, mlVars, mainVars >>

\* Lines 72-76: the first matching clause handles the exception and the
\* statement ends; an exception no clause matches leaves the block.
Except ==
    /\ eh_pc = "except"
    /\ IF MatchingClause(eh_exc) = 0
       THEN /\ eh_escaped' = eh_exc
            /\ eh_pc' = "escaped"
            /\ UNCHANGED << eh_handlers, eh_stdout >>
       ELSE /\ eh_handlers' = Append(eh_handlers, ExceptClauses[MatchingClause(eh_exc)])
            /\ eh_stdout' = Append(eh_stdout, HandlerPrint(ExceptClauses[MatchingClause(eh_exc)], eh_exc))
            /\ eh_pc' = "after"
            /\ UNCHANGED eh_escaped
    /\ UNCHANGED << eh_net, eh_exc >>
    /\ UNCHANGED << callVars, sessVars, scriptVars, httpVars, fsVars, mlVars, mainVars >>

\* Lines 89-90: the scraping section begins with its request.
StartScraping ==
    /\ eh_pc = "after"
    /\ eh_pc' = "scraping"
    /\ UNCHANGED << eh_net, eh_exc, eh_handlers, eh_stdout, eh_escaped >>
    /\ UNCHANGED << callVars, sessVars, scriptVars, httpVars, fsVars, mlVars, mainVars >>

BlockNext ==
    \/ TrySend
    \/ TryResponds
    \/ TryRaises
    \/ Except
    \/ StartScraping

BlockSpec == BlockInit /\ [][BlockNext]_vars

\* The interpreter runs the statements one after the other, and the timeout
\* passed at line 70 makes the request end.
BlockFairSpec == BlockSpec /\ WF_vars(BlockNext)

(***************************************************************************)
(* main and its examples: 08_python_ds_ai_development_cheatsheet.py,       *)
(* lines 85-198                                                            *)
(***************************************************************************)

\* The examples in the order main calls them (lines 190-194).
Examples ==
    << "example_get_ibm", "example_get_with_params", "example_post_form",
       "example_download_image", "example_download_text_file" >>

\* The helper each example calls, and the url it passes.
ExampleMethod(i) == IF Examples[i] = "example_post_form" THEN "POST" ELSE "GET"
ExampleUrl(i) ==
    CASE Examples[i] = "example_get_ibm" -> "https://www.ibm.com/"
      [] Examples[i] = "example_get_with_params" -> "http://httpbin.org/get"
      [] Examples[i] = "example_post_form" -> "http://httpbin.org/post"
      [] Examples[i] = "example_download_image" ->
            "https://cf-courses-data.s3.us.cloud-object-storage.appdomain.cloud/IBMDeveloperSkillsNetwork-PY0101EN-SkillsNetwork/IDSNlogo.png"
      [] OTHER ->
            "https://cf-courses-data.s3.us.cloud-object-storage.appdomain.cloud/IBMDeveloperSkillsNetwork-PY0101EN-SkillsNetwork/labs/Module%205/data/Example1.txt"

\* The first line each example prints once its response is there.
ExampleHeading(i) ==
    CASE Examples[i] = "example_get_ibm" -> "=== GET IBM ==="
      [] Examples[i] = "example_get_with_params" -> "=== GET with params (httpbin) ==="
      [] Examples[i] = "example_post_form" -> "=== POST form data (httpbin) ==="
      [] Examples[i] = "example_download_image" -> "=== Download image ==="
      [] OTHER -> "=== Download text file ==="

\* The examples that save the content of the response, and the file each names.
Downloads == { i \in 1..Len(Examples) :
                 Examples[i] \in {"example_download_image", "example_download_text_file"} }
ExampleFile(i) == IF Examples[i] = "example_download_image" THEN "image.png" ELSE "example1.txt"

\* What the network does with the request of one example: the content asked
\* for, a 200 with another content (an error page, a truncated body), an error
\* status, no answer before the timeout.
MainOutcomes ==
    { [kind |-> "response", status |-> 200, body |-> "good"],
      [kind |-> "response", status |-> 200, body |-> "bad"],
      [kind |-> "response", status |-> 404, body |-> "bad"],
      [kind |-> "Timeout", status |-> 0, body |-> "bad"] }

\* r.content for a body: the first bytes of a PNG or of a text, or of a page.
ResponseContent(i, body) ==
    IF body = "bad" THEN <<60, 104>>
    ELSE IF Examples[i] = "example_download_image" THEN <<137, 80, 78, 71>>
    ELSE <<84, 104, 105, 115>>

\* The working directory before main: without the two files, with both of them
\* from an earlier run, and with a directory named image.png.
MainFileSystems ==
    { [dirs |-> {<<>>, Cwd}, files |-> <<>>],
      [dirs |-> {<<>>, Cwd},
       files |-> [q \in {Cwd \o <<"image.png">>, Cwd \o <<"example1.txt">>} |-> <<1, 2>>]],
      [dirs |-> {<<>>, Cwd, Cwd \o <<"image.png">>},
       files |-> [q \in {Cwd \o <<"example1.txt">>} |-> <<1, 2>>]] }

\* python runs the file: line 198 calls main.
MainInit ==
    /\ main_pc = 0
    /\ ex_pc = ""
    /\ main_net \in [1..Len(Examples) -> MainOutcomes]
    /\ examples_run = <<>>
    /\ main_stdout = <<>>
    /\ main_raised = ""
    /\ HttpIdle
    /\ sb_pc = "idle" /\ content = <<>> /\ filepath = <<>> /\ path = <<>>
    /\ sb_raised = "" /\ sb_result = <<>>
    /\ \E f \in MainFileSystems : fs_dirs = f.dirs /\ fs_files = f.files /\ fs_before = f
    /\ CallIdle /\ SessIdle /\ ScriptIdle /\ MlIdle /\ EhIdle

\* Lines 190-194: the next example is called, and its first statement calls
\* safe_get or safe_post with its url.
BeginExample ==
    /\ main_pc \in 0..(Len(Examples) - 1)
    /\ ex_pc = ""
    /\ main_raised = ""
    /\ main_pc' = main_pc + 1
    /\ examples_run' = Append(examples_run, Examples[main_pc + 1])
    /\ ex_pc' = "fetch"
    /\ http_pc' = "call"
    /\ http_method' = ExampleMethod(main_pc + 1)
    /\ http_url' = ExampleUrl(main_pc + 1)
    /\ http_net' = [kind |-> main_net[main_pc + 1].kind, status |-> main_net[main_pc + 1].status]
    /\ http_response' = <<>>
    /\ http_raised' = NoError
    /\ UNCHANGED << main_net, main_stdout, main_raised >>
    /\ UNCHANGED << callVars, sessVars, scriptVars, fsVars, mlVars, ehVars >>

\* The helper raises and the example continues as if it had returned.
FetchRaisesContinues ==
    /\ ex_pc = "fetch"
    /\ http_pc = "raised"
    /\ main_raised = ""
    /\ main_stdout' = Append(main_stdout, ExampleHeading(main_pc))
    /\ IF main_pc \in Downloads
       THEN /\ ex_pc' = "save"
            /\ sb_pc' = "call"
            /\ content' = ResponseContent(main_pc, main_net[main_pc].body)
            /\ filepath' = [kind |-> "abs", parts |-> Cwd \o <<ExampleFile(main_pc)>>]
            /\ path' = <<>>
            /\ sb_raised' = ""
            /\ sb_result' = <<>>
            /\ UNCHANGED << fs_dirs, fs_files, fs_before >>
       ELSE /\ ex_pc' = ""
            /\ UNCHANGED fsVars
    /\ UNCHANGED << main_pc, main_net, examples_run, main_raised >>
    /\ UNCHANGED << callVars, sessVars, scriptVars, httpVars, mlVars, ehVars >>

\* The helper raises RuntimeError: nothing in the example nor in main catches
\* it, and main ends with it.
FetchRaises ==
    /\ ex_pc = "fetch"
    /\ http_pc = "raised"
    /\ main_raised = ""
    /\ main_raised' = http_raised.type
    /\ UNCHANGED << main_pc, ex_pc, main_net, examples_run, main_stdout >>
    /\ UNCHANGED << callVars, sessVars, scriptVars, httpVars, fsVars, mlVars, ehVars >>

\* The helper returns r: the heading is printed; the two download examples go on
\* with save_bytes(r.content, Path(os.getcwd()) / name) (lines 119 and 138),
\* example_get_ibm only prints, the two httpbin examples go on to r.json().
FetchReturns ==
    /\ ex_pc = "fetch"
    /\ http_pc = "returned"
    /\ main_stdout' = Append(main_stdout, ExampleHeading(main_pc))
    /\ IF main_pc \in Downloads
       THEN /\ ex_pc' = "save"
            /\ sb_pc' = "call"
            /\ content' = ResponseContent(main_pc, main_net[main_pc].body)
            /\ filepath' = [kind |-> "abs", parts |-> Cwd \o <<ExampleFile(main_pc)>>]
            /\ path' = <<>>
            /\ sb_raised' = ""
            /\ sb_result' = <<>>
            /\ UNCHANGED << fs_dirs, fs_files, fs_before >>
       ELSE /\ ex_pc' = IF Examples[main_pc] = "example_get_ibm" THEN "" ELSE "use"
            /\ UNCHANGED fsVars
    /\ UNCHANGED << main_pc, main_net, examples_run, main_raised >>
    /\ UNCHANGED << callVars, sessVars, scriptVars, httpVars, mlVars, ehVars >>

\* save_bytes raises (a directory has the name of the file): main ends with it.
SaveRaises ==
    /\ ex_pc = "save"
    /\ sb_pc = "raised"
    /\ main_raised = ""
    /\ main_raised' = sb_raised
    /\ UNCHANGED << main_pc, ex_pc, main_net, examples_run, main_stdout >>
    /\ UNCHANGED << callVars, sessVars, scriptVars, httpVars, fsVars, mlVars, ehVars >>

\* save_bytes returns the path, which is printed (lines 120 and 139).
SaveReturns ==
    /\ ex_pc = "save"
    /\ sb_pc = "returned"
    /\ main_stdout' = Append(main_stdout, <<"Saved to:", sb_result[1]>>)
    /\ ex_pc' = "use"
    /\ UNCHANGED << main_pc, main_net, examples_run, main_raised >>
    /\ UNCHANGED << callVars, sessVars, scriptVars, httpVars, fsVars, mlVars, ehVars >>

\* The lines after: r.json() (162, 181) raises on a body that is not JSON,
\* Image.open (123) on a file that is not an image; read_text with
\* errors="replace" (142) reads any bytes.  The example then returns.
UseResponse ==
    /\ ex_pc = "use"
    /\ main_raised = ""
    /\ IF main_net[main_pc].body = "bad" /\ Examples[main_pc] # "example_download_text_file"
       THEN /\ main_raised' = IF main_pc \in Downloads THEN "UnidentifiedImageError"
                                                       ELSE "JSONDecodeError"
            /\ UNCHANGED ex_pc
       ELSE /\ ex_pc' = ""
            /\ UNCHANGED main_raised
    /\ UNCHANGED << main_pc, main_net, examples_run, main_stdout >>
    /\ UNCHANGED << callVars, sessVars, scriptVars, httpVars, fsVars, mlVars, ehVars >>

\* The last example has returned: main returns.
MainReturns ==
    /\ main_pc = Len(Examples)
    /\ ex_pc = ""
    /\ main_raised = ""
    /\ main_pc' = main_pc + 1
    /\ UNCHANGED << ex_pc, main_net, examples_run, main_stdout, main_raised >>
    /\ UNCHANGED << callVars, sessVars, scriptVars, httpVars, fsVars, mlVars, ehVars >>

MainNext ==
    \/ BeginExample
    \/ SendRequest
    \/ ResponseArrives
    \/ RequestRaises
    \/ FetchReturns
    \/ FetchRaises
    \/ ResolvePath
    \/ MakeParents
    \/ WriteAndReturn
    \/ SaveReturns
    \/ SaveRaises
    \/ UseResponse
    \/ MainReturns

MainSpec == MainInit /\ [][MainNext]_vars

(***************************************************************************)
(* What the claims speak of                                                *)
(***************************************************************************)

\* The tables of the page the server holds, in document order.
PageTables == find_all(server.page, "table")

\* The label is a substring of the text of the table, letter case included.
HoldsLabel(tbl) ==
    LET t == get_text(tbl)
    IN  \E k \in 0..(Len(t) - Len(table_label)) :
            \A i \in 1..Len(table_label) : t[k + i] = table_label[i]

\* The place of the first table of the page that holds the label, 0 if none does.
FirstMatch ==
    IF \E i \in 1..Len(PageTables) : HoldsLabel(PageTables[i])
    THEN CHOOSE i \in 1..Len(PageTables) :
            HoldsLabel(PageTables[i]) /\ \A j \in 1..(i - 1) : ~HoldsLabel(PageTables[j])
    ELSE 0

\* The call has ended.
Terminal == pc \in {"returned", "raised"}

\* The loop over the body rows has been entered (ri rows are read).
RowsEntered ==
    \/ pc \in {"rows", "frame", "sort", "returned"}
    \/ pc = "raised" /\ raised = FloatValueError

\* The records of the frame returned.
Output == IF result = <<>> THEN <<>> ELSE result[1]

\* The texts of the cells of a row, each stripped.
CellTexts(row) ==
    [i \in 1..Len(find_all(row, "td")) |-> get_text_strip(find_all(row, "td")[i])]

\* "nan" in any letter case.
IsNanText(s) ==
    Len(s) = 3 /\ s[1] \in {"n", "N"} /\ s[2] \in {"a", "A"} /\ s[3] \in {"n", "N"}

\* A row with at least two cells whose amount is neither empty nor "nan".
Carried(row) ==
    /\ Len(CellTexts(row)) >= 2
    /\ CellTexts(row)[2] # <<>>
    /\ ~IsNanText(CellTexts(row)[2])

\* The rows read so far, and those of them that are carried to the cleaning.
RowsRead == SubSeq(trs, 1, ri)
CarriedRows == SelectSeq(RowsRead, Carried)

\* The text with every "$" and every "," left out.
WithoutSymbols(s) == SelectSeq(s, LAMBDA c : c \notin {"$", ","})

\* a <= b in the order of str: a is a prefix of b, or the first character in
\* which they differ is smaller in a.
LexLeq(a, b) ==
    \/ Len(a) <= Len(b) /\ SubSeq(b, 1, Len(a)) = a
    \/ \E k \in 1..Len(a) :
          /\ k <= Len(b)
          /\ SubSeq(a, 1, k - 1) = SubSeq(b, 1, k - 1)
          /\ Ord(a[k]) < Ord(b[k])

\* 10^n.
RECURSIVE Pow10(_)
Pow10(n) == IF n = 0 THEN 1 ELSE 10 * Pow10(n - 1)

\* An unsigned decimal: digits with at most one point among them.
IsPlainDecimal(s) ==
    /\ \A i \in 1..Len(s) : s[i] \in Digits \cup {"."}
    /\ Cardinality({i \in 1..Len(s) : s[i] = "."}) <= 1
    /\ \E i \in 1..Len(s) : s[i] \in Digits

\* Its value m / 10^k, read digit by digit from the left.
RECURSIVE DigitSum(_, _)
DigitSum(ds, acc) ==
    IF ds = <<>> THEN acc ELSE DigitSum(Tail(ds), 10 * acc + (Ord(Head(ds)) - Ord("0")))

PlainDecimalValue(s) ==
    [m |-> DigitSum(SelectSeq(s, LAMBDA c : c \in Digits), 0),
     k |-> IF \E i \in 1..Len(s) : s[i] = "."
           THEN Len(s) - (CHOOSE i \in 1..Len(s) : s[i] = ".")
           ELSE 0]

\* The float v is the number d.m / 10^d.k.
SameNumber(v, d) ==
    /\ v.kind = "num"
    /\ LET up == IF v.k < 0 THEN 0 - v.k ELSE 0
       IN  v.m * Pow10(d.k + up) = d.m * Pow10(v.k + up)

\* The one-to-one maps of 1..n onto itself.
Perms(n) == { f \in [1..n -> 1..n] : \A i, j \in 1..n : f[i] = f[j] => i = j }

(***************************************************************************)
(* C1                                                                      *)
(***************************************************************************)

\* The labels of the rows of a table itself: the tr children of its tbody children.
OwnRowLabels(tbl) ==
    UNION { { CellTexts(tbl.kids[i].kids[j])[1] :
                j \in { j \in 1..Len(tbl.kids[i].kids) :
                          /\ tbl.kids[i].kids[j].tag = "tr"
                          /\ CellTexts(tbl.kids[i].kids[j]) # <<>> } } :
            i \in { i \in 1..Len(tbl.kids) : tbl.kids[i].tag = "tbody" } }

\* The labels of the rows anywhere inside a table, nested tables included.
InsideRowLabels(tbl) ==
    { CellTexts(find_all(tbl, "tr")[i])[1] :
        i \in { i \in 1..Len(find_all(tbl, "tr")) : CellTexts(find_all(tbl, "tr")[i]) # <<>> } }

\* C1 as stated: the table chosen is the first, in document order, whose text
\* holds the label, and every record returned is a row of that table itself: rows
\* of a later table that holds the label never appear in the output.
C1_OnlyRowsOfFirstMatch ==
    /\ pc \notin {"call", "get", "scan"} =>
          target_table = IF FirstMatch = 0 THEN None ELSE PageTables[FirstMatch]
    /\ pc = "returned" =>
          \A i \in 1..Len(Output) : Output[i].Date \in OwnRowLabels(PageTables[FirstMatch])

\* C1 as amended: the table chosen is the first, in document order, whose text
\* holds the label as an exact, case-sensitive substring, and every record
\* returned is a row found inside that table (a row of a table nested in it
\* included); no other table is read, even when the chosen one yields no record.
C1_FirstMatchingTable ==
    /\ pc \notin {"call", "get", "scan"} =>
          target_table = IF FirstMatch = 0 THEN None ELSE PageTables[FirstMatch]
    /\ pc = "returned" =>
          \A i \in 1..Len(Output) : Output[i].Date \in InsideRowLabels(PageTables[FirstMatch])

\* The first table with the label yields nothing, the second has the label and
\* usable rows, and the call returns the empty frame.
C1_Witness ==
    /\ pc = "returned"
    /\ Output = <<>>
    /\ Len(PageTables) = 2
    /\ HoldsLabel(PageTables[1])
    /\ PageTables[2] = TeslaTable
    /\ HoldsLabel(PageTables[2])

(***************************************************************************)
(* C2                                                                      *)
(***************************************************************************)

\* C2: whenever the call returns, the records are in ascending str order of
\* their labels: each label is <= the next.
C2_SortedByLabel ==
    pc = "returned" =>
        \A i \in 1..(Len(Output) - 1) : LexLeq(Output[i].Date, Output[i + 1].Date)

\* The call returns two records whose rows came in descending order.
C2_Witness ==
    /\ pc = "returned"
    /\ Len(Output) = 2
    /\ dates[1] # dates[2]
    /\ ~LexLeq(dates[1], dates[2])

(***************************************************************************)
(* C3                                                                      *)
(***************************************************************************)

\* C3: every record returned has a finite decimal amount: none is not-a-number
\* or infinite.
C3_AmountsFinite ==
    pc = "returned" => \A i \in 1..Len(Output) : Output[i].Revenue.kind = "num"

(***************************************************************************)
(* C4                                                                      *)
(***************************************************************************)

\* C4: when no table of the page received holds the label (a page with no table
\* included), the call never reads a row and never returns; it ends with the
\* table-not-found error.
C4_NotFound ==
    (status_code # 0 /\ FirstMatch = 0) =>
        /\ pc \in {"scan", "check", "raised"}
        /\ pc = "raised" => raised = NotFoundError
        /\ result = <<>>
        /\ ri = 0 /\ trs = <<>> /\ dates = <<>> /\ revenues = <<>>

\* The page has tables, none holds the label, and the call has failed.
C4_Witness ==
    /\ pc = "raised"
    /\ raised = NotFoundError
    /\ Len(tables) = 2
    /\ tables[1] = LowerTable

(***************************************************************************)
(* C5                                                                      *)
(***************************************************************************)

\* A row carried to the cleaning whose amount float() rejects once "$" and ","
\* are left out.
BadAmount(row) == Carried(row) /\ ParseFloat(WithoutSymbols(CellTexts(row)[2])).kind = "error"

\* C5: when one carried row of the table has an amount that is not numeric
\* after the cleaning, wherever the row sits, the call ends with the parse
\* failure and returns nothing.
C5_ParseFailureIsFatal ==
    (Terminal /\ \E i \in 1..Len(trs) : BadAmount(trs[i])) =>
        /\ pc = "raised"
        /\ raised = FloatValueError
        /\ result = <<>>

\* The first row is good, the second is not numeric, and the call has failed.
C5_Witness ==
    /\ pc = "raised"
    /\ raised = FloatValueError
    /\ Len(trs) = 2
    /\ Carried(trs[1]) /\ ~BadAmount(trs[1])
    /\ BadAmount(trs[2])

(***************************************************************************)
(* C6                                                                      *)
(***************************************************************************)

\* C6: no amount that is empty or "nan" in any letter case is carried to the
\* cleaning, every other row of two cells or more is, and the call fails in the
\* conversion only when a carried row has an amount that is not numeric.
C6_EmptyAndNanSkipped ==
    RowsEntered =>
        /\ \A i \in 1..Len(revenues) : revenues[i] # <<>> /\ ~IsNanText(revenues[i])
        /\ Len(revenues) = Len(CarriedRows)
        /\ Len(dates) = Len(CarriedRows)
        /\ pc = "raised" => \E i \in 1..Len(trs) : BadAmount(trs[i])

\* A row with the amount "NaN" and a row with a good amount: one record returned.
C6_Witness ==
    /\ pc = "returned"
    /\ Len(trs) = 2
    /\ CellTexts(trs[1]) = <<Date1, <<"N", "a", "N">> >>
    /\ Len(Output) = 1

(***************************************************************************)
(* C7                                                                      *)
(***************************************************************************)

\* The rows of Scenario A.
ScenarioARows ==
    << TR(<<Date1, <<"$", "2", "4", ",", "3", "1", "8">> >>),
       TR(<<Date2, <<"$", "2", "3", ",", "3", "5", "0">> >>) >>

\* C7: the records returned are the carried rows, each with the decimal value of
\* its amount once every "$" and every "," is left out; the rows of Scenario A
\* give (2023-09-30, 23350.0), (2023-12-31, 24318.0).
C7_CleanedAmounts ==
    /\ pc = "returned" =>
          /\ Len(Output) = Len(revenues)
          /\ \E f \in Perms(Len(Output)) :
                \A i \in 1..Len(Output) :
                    /\ Output[i].Date = dates[f[i]]
                    /\ IsPlainDecimal(WithoutSymbols(revenues[f[i]])) =>
                          SameNumber(Output[i].Revenue,
                                     PlainDecimalValue(WithoutSymbols(revenues[f[i]])))
    /\ (Terminal /\ trs = ScenarioARows) =>
          /\ pc = "returned"
          /\ Len(Output) = 2
          /\ Output[1].Date = Date2 /\ SameNumber(Output[1].Revenue, [m |-> 23350, k |-> 0])
          /\ Output[2].Date = Date1 /\ SameNumber(Output[2].Revenue, [m |-> 24318, k |-> 0])

\* Scenario A has returned.
C7_Witness == pc = "returned" /\ trs = ScenarioARows

(***************************************************************************)
(* C8                                                                      *)
(***************************************************************************)

\* C8: the label and the amount kept for a carried row are the texts of its
\* first and second cell, whatever cells follow; a row of fewer than two cells
\* gives no record, and no error.
C8_FirstTwoCells ==
    RowsEntered =>
        /\ dates = [i \in 1..Len(CarriedRows) |-> CellTexts(CarriedRows[i])[1]]
        /\ revenues = [i \in 1..Len(CarriedRows) |-> CellTexts(CarriedRows[i])[2]]
        /\ \A i \in 1..ri : Len(CellTexts(trs[i])) < 2 => ~Carried(trs[i])
        /\ (pc = "raised" => \E i \in 1..Len(trs) : Len(CellTexts(trs[i])) >= 2)

\* A row of one cell and a row of three cells have been read: one record.
C8_Witness ==
    /\ pc = "returned"
    /\ Len(trs) = 2
    /\ Len(CellTexts(trs[1])) = 1
    /\ Len(CellTexts(trs[2])) = 3
    /\ Len(Output) = 1

(***************************************************************************)
(* C9                                                                      *)
(***************************************************************************)

\* C9: a response whose status is not a success (2xx) ends the call with a
\* network error; its body is never parsed as the page.
C9_ErrorStatusIsNetworkError ==
    (status_code # 0 /\ status_code \notin 200..299) =>
        /\ pc = "raised"
        /\ raised = ConnectionError
        /\ soup = None

(***************************************************************************)
(* C10                                                                     *)
(***************************************************************************)

\* C10: every call ends, in a result or in a failure, even when the server
\* never answers.
C10_CallEnds == <>Terminal

(***************************************************************************)
(* C11                                                                     *)
(***************************************************************************)

\* The calls begun so far by the caller, the current one included.
CallsBegun == Len(done) + 1

\* C11: each call of get_revenue_from_macrotrends issues exactly one HTTP
\* request.  Once a call has sent its request, the requests sent are as many as
\* the calls begun, whatever the earlier calls asked for; a fetch that fails ends
\* the call with that one request; and a page that is parsed is the page the
\* server held for this request.
C11_OneRequestPerCall ==
    /\ requests_sent = IF pc = "call" THEN CallsBegun - 1 ELSE CallsBegun
    /\ (pc = "raised" /\ raised = ConnectionError) => server.kind = "error"
    /\ (pc \notin {"call", "get"} /\ server.kind = "response") => soup = server.page

\* A second call with the url of the first, answered with another page than the
\* first, has returned: two requests were sent and the frame is of the new page.
C11_Witness ==
    /\ Len(done) = 1
    /\ done[1].url = url
    /\ done[1].server.kind = "response"
    /\ done[1].server # server
    /\ pc = "returned"
    /\ requests_sent = 2
    /\ result # done[1].result

(***************************************************************************)
(* C12                                                                     *)
(***************************************************************************)

\* The calls of the caller that have ended, the current one included once it
\* has ended.
SessionLog == done \o (IF Terminal THEN <<CallRecord>> ELSE <<>>)

\* C12: extraction has no hidden state.  Two calls of one caller that were
\* given the same document and the same label end the same way: the same frame
\* (the same records in the same order) or the same exception, whichever calls,
\* with whatever documents and labels, were made before either of them.
C12_NoHiddenState ==
    \A i, j \in 1..Len(SessionLog) :
        ( /\ SessionLog[i].server.kind = "response"
          /\ SessionLog[i].server = SessionLog[j].server
          /\ SessionLog[i].table_label = SessionLog[j].table_label )
        => ( /\ SessionLog[i].result = SessionLog[j].result
             /\ SessionLog[i].raised = SessionLog[j].raised )

\* A first call, then a call with the other label that returned records, then the
\* first call again on the same document: it has returned records too.
C12_Witness ==
    /\ Len(SessionLog) = 3
    /\ SessionLog[1].server = SessionLog[3].server
    /\ SessionLog[1].table_label = SessionLog[3].table_label
    /\ SessionLog[2].table_label # SessionLog[3].table_label
    /\ SessionLog[2].result # <<>> /\ SessionLog[2].result[1] # <<>>
    /\ SessionLog[3].result # <<>> /\ SessionLog[3].result[1] # <<>>
    /\ SessionLog[2].result # SessionLog[3].result

(***************************************************************************)
(* C13                                                                     *)
(***************************************************************************)

\* The text of the first cell of a row as the page holds it.
FirstCellText(row) == get_text(find_all(row, "td")[1])

\* The rows the call carried to the frame.
RetainedRows == { trs[i] : i \in { i \in 1..Len(trs) : Carried(trs[i]) } }

\* The labels of the frame returned.
OutputLabels == { Output[i].Date : i \in 1..Len(Output) }

\* t is s without the white space at its two ends.
IsTrimOf(t, s) ==
    \E a \in 0..Len(s) : \E b \in a..Len(s) :
        /\ t = SubSeq(s, a + 1, b)
        /\ \A i \in (1..a) \cup ((b + 1)..Len(s)) : IsSpace(s[i])
        /\ t # <<>> => ~IsSpace(t[1]) /\ ~IsSpace(t[Len(t)])

\* The pieces of text of the first cell of a row, each without the white space
\* at its ends, one after the other.
RECURSIVE JoinTrimmed(_)
JoinTrimmed(ps) ==
    IF ps = <<>> THEN <<>>
    ELSE (CHOOSE t \in { SubSeq(Head(ps), a, b) : a \in 1..(Len(Head(ps)) + 1), b \in 0..Len(Head(ps)) } :
              IsTrimOf(t, Head(ps)))
         \o JoinTrimmed(Tail(ps))

TrimmedFirstCell(row) == JoinTrimmed(strings_in(<<find_all(row, "td")[1]>>))

\* C13 as stated: the labels returned are, character for character, the texts
\* of the first cells of the retained rows.
C13_LabelsAreFirstCellTexts ==
    pc = "returned" => OutputLabels = { FirstCellText(r) : r \in RetainedRows }

\* C13 as amended: the labels returned are the texts of the first cells of the
\* retained rows with the white space at the ends of each piece of text left
\* out, and otherwise character for character: nothing in between is changed.
C13_LabelsAreTrimmedFirstCells ==
    pc = "returned" => OutputLabels = { TrimmedFirstCell(r) : r \in RetainedRows }

\* A frame is returned for a row whose first cell is a date between blanks.
C13_Witness ==
    /\ pc = "returned"
    /\ \E r \in RetainedRows : FirstCellText(r) = PaddedDate2
    /\ Date2 \in OutputLabels
    /\ PaddedDate2 \notin OutputLabels

(***************************************************************************)
(* C14                                                                     *)
(***************************************************************************)

\* A date written YYYY-MM-DD.
IsIsoDate(s) ==
    /\ Len(s) = 10
    /\ s[5] = "-" /\ s[8] = "-"
    /\ \A i \in {1, 2, 3, 4, 6, 7, 9, 10} : s[i] \in Digits

\* A date written month/day/year, month and day of one digit or two.
IsUsDate(s) ==
    /\ Cardinality({ i \in 1..Len(s) : s[i] = "/" }) = 2
    /\ \A i \in 1..Len(s) : s[i] \in Digits \cup {"/"}
    /\ LET p == CHOOSE i \in 1..Len(s) : s[i] = "/"
           q == CHOOSE i \in 1..Len(s) : s[i] = "/" /\ i # p
       IN  p \in {2, 3} /\ q - p \in {2, 3} /\ Len(s) - q = 4

\* The day a date names, as the number year * 10000 + month * 100 + day.
DayOf(s) ==
    IF IsIsoDate(s)
    THEN DigitSum(SubSeq(s, 1, 4), 0) * 10000 + DigitSum(SubSeq(s, 6, 7), 0) * 100
         + DigitSum(SubSeq(s, 9, 10), 0)
    ELSE LET p == CHOOSE i \in 1..Len(s) : s[i] = "/" /\ \A j \in 1..(i - 1) : s[j] # "/"
             q == CHOOSE i \in 1..Len(s) : s[i] = "/" /\ i # p
         IN  DigitSum(SubSeq(s, q + 1, Len(s)), 0) * 10000 + DigitSum(SubSeq(s, 1, p - 1), 0) * 100
             + DigitSum(SubSeq(s, p + 1, q - 1), 0)

\* C14: a frame whose labels are all dates written YYYY-MM-DD is returned in
\* ascending order of the days they name; a frame whose labels are not all of
\* that format is returned in the str order of the labels, which is then the
\* only order it is known to have.
C14_ChronologicalForIsoLabels ==
    pc = "returned" =>
        IF \A i \in 1..Len(Output) : IsIsoDate(Output[i].Date)
        THEN \A i \in 1..(Len(Output) - 1) : DayOf(Output[i].Date) <= DayOf(Output[i + 1].Date)
        ELSE \A i \in 1..(Len(Output) - 1) : LexLeq(Output[i].Date, Output[i + 1].Date)

\* Labels written month/day/year: 12/31/2023 is returned before 9/30/2023, the
\* str order, though it names the later day.
C14_Witness ==
    /\ pc = "returned"
    /\ Len(Output) = 2
    /\ IsUsDate(Output[1].Date) /\ IsUsDate(Output[2].Date)
    /\ Output[1].Date = UsDate1 /\ Output[2].Date = UsDate2
    /\ DayOf(Output[1].Date) > DayOf(Output[2].Date)
    /\ dates = <<UsDate2, UsDate1>>

(***************************************************************************)
(* C15                                                                     *)
(***************************************************************************)

\* The price fetch for a ticker was made and raised.
StockFailed(t) ==
    /\ \E i \in 1..Len(history_calls) : history_calls[i] = t
    /\ market[t].kind = "error"

\* The place in the log of the revenue call for a url that ended with an
\* exception, 0 if there is none.
RevenueFailure(u) ==
    IF \E i \in 1..Len(done) : done[i].url = u /\ done[i].raised # ""
    THEN CHOOSE i \in 1..Len(done) : done[i].url = u /\ done[i].raised # ""
    ELSE 0

\* C15: nothing in the script recovers from an error.  Once a price fetch or a
\* revenue extraction has raised, that exception is the one that ends the
\* module, and no later statement has run: after a failure of the Tesla steps
\* there is no figure, no GameStop fetch and no print; after a failure of the
\* GameStop steps there is the Tesla figure only and no print.
C15_FailureEndsTheScript ==
    /\ StockFailed("TSLA") =>
          /\ script_raised = YFinanceError
          /\ history_calls = <<"TSLA">> /\ requests_sent = 0
          /\ tesla_stock = <<>> /\ tesla_revenue = <<>> /\ gme_stock = <<>> /\ gme_revenue = <<>>
          /\ figures = <<>> /\ printed = <<>>
    /\ RevenueFailure(tesla_revenue_url) # 0 =>
          /\ script_raised = done[RevenueFailure(tesla_revenue_url)].raised
          /\ history_calls = <<"TSLA">> /\ requests_sent = 1
          /\ tesla_revenue = <<>> /\ gme_stock = <<>> /\ gme_revenue = <<>>
          /\ figures = <<>> /\ printed = <<>>
    /\ StockFailed("GME") =>
          /\ script_raised = YFinanceError
          /\ history_calls = <<"TSLA", "GME">> /\ requests_sent = 1
          /\ gme_stock = <<>> /\ gme_revenue = <<>>
          /\ Len(figures) = 1 /\ printed = <<>>
    /\ RevenueFailure(gme_revenue_url) # 0 =>
          /\ script_raised = done[RevenueFailure(gme_revenue_url)].raised
          /\ history_calls = <<"TSLA", "GME">> /\ requests_sent = 2
          /\ gme_revenue = <<>>
          /\ Len(figures) = 1 /\ printed = <<>>

\* The extraction of the Tesla revenue has failed on an amount that is no number,
\* after the Tesla prices were fetched, and the module has ended with that error.
C15_Witness ==
    /\ tesla_stock # <<>>
    /\ RevenueFailure(tesla_revenue_url) = 1
    /\ done[1].raised = FloatValueError
    /\ script_raised = FloatValueError
    /\ market["GME"].kind = "frame"
    /\ sites[gme_revenue_url].page = BothPage

(***************************************************************************)
(* C16                                                                     *)
(***************************************************************************)

\* C16: the pipeline runs only when it is explicitly invoked.  When the module
\* is merely loaded by an import, no price fetch, no revenue fetch and no plot
\* has run.
C16_NothingRunsOnImport ==
    load_mode = "import" =>
        /\ history_calls = <<>>
        /\ requests_sent = 0
        /\ figures = <<>>

(***************************************************************************)
(* C17                                                                     *)
(***************************************************************************)

\* The frame the revenue call for a url returned, as the log of calls has it.
ReturnedFor(u) == (CHOOSE r \in { done[i] : i \in 1..Len(done) } : r.url = u).result

\* C17: plot_price_and_revenue leaves its inputs as they were.  Once the Tesla
\* figure is shown, tesla_stock is still the frame yfinance gave and
\* tesla_revenue the frame the extraction returned, row for row and value for
\* value; the same for the GameStop frames once the second figure is shown.
C17_PlotLeavesInputs ==
    /\ Len(figures) >= 1 =>
          /\ tesla_stock = <<market["TSLA"].frame>>
          /\ tesla_revenue = ReturnedFor(tesla_revenue_url)
    /\ Len(figures) >= 2 =>
          /\ gme_stock = <<market["GME"].frame>>
          /\ gme_revenue = ReturnedFor(gme_revenue_url)

\* Both figures are shown, each drawn from a revenue frame that has rows, and
\* the dates of the traces are timestamps while those of the frames are still str.
C17_Witness ==
    /\ Len(figures) = 2
    /\ Len(tesla_revenue[1]) = 2 /\ Len(gme_revenue[1]) = 2
    /\ figures[1].revenue_x[1] = Timestamp(2023, 9, 30)
    /\ tesla_revenue[1][1].Date = Date2
    /\ figures[2].revenue_x[1] # gme_revenue[1][1].Date

(***************************************************************************)
(* C18                                                                     *)
(***************************************************************************)

\* The request did not complete with a good status: requests raised, or the
\* status of the response is a client or a server error.
RequestLevelFailure ==
    \/ http_net.kind \in {"ConnectionError", "Timeout", "TooManyRedirects"}
    \/ http_net.kind = "response" /\ http_net.status \in 400..599

\* C18: safe_get and safe_post return a response only when the request
\* completed with a status that is no error; every request-level failure
\* (connection error, timeout, error status) reaches the caller as a
\* RuntimeError whose message names the method and the url; a response with an
\* error status is never returned.
C18_OnlyGoodResponsesReturned ==
    /\ http_pc = "returned" =>
          /\ ~RequestLevelFailure
          /\ http_response = <<[status_code |-> http_net.status, url |-> http_url]>>
          /\ http_raised = NoError
    /\ (http_pc \in {"returned", "raised"} /\ RequestLevelFailure) =>
          /\ http_pc = "raised"
          /\ http_response = <<>>
          /\ http_raised.type = "RuntimeError"
          /\ http_raised.message[1] = http_method
          /\ http_raised.message[3] = http_url
    /\ http_response # <<>> => http_response[1].status_code \notin 400..599

\* safe_post has raised RuntimeError for a response with status 404.
C18_Witness ==
    /\ http_pc = "raised"
    /\ http_method = "POST"
    /\ http_net.kind = "response" /\ http_net.status = 404
    /\ http_raised.type = "RuntimeError"
    /\ http_raised.cause = "HTTPError"
    /\ http_raised.message[1] = "POST"

(***************************************************************************)
(* C19                                                                     *)
(***************************************************************************)

\* An absolute path without "..": while there is a "..", the first one is taken
\* out with the name before it, if there is one.
RECURSIVE WithoutDotDot(_)
WithoutDotDot(ps) ==
    IF \A i \in 1..Len(ps) : ps[i] # ".." THEN ps
    ELSE LET i == CHOOSE i \in 1..Len(ps) : ps[i] = ".." /\ \A j \in 1..(i - 1) : ps[j] # ".."
         IN  WithoutDotDot(SubSeq(ps, 1, i - 2) \o SubSeq(ps, i + 1, Len(ps)))

\* The resolved absolute form of the filepath given.
AbsoluteForm(fp) ==
    WithoutDotDot(CASE fp.kind = "abs" -> fp.parts
                    [] fp.kind = "rel" -> <<"work">> \o fp.parts
                    [] fp.kind = "home" -> <<"home", "user">> \o fp.parts)

\* C19: save_bytes is binary-safe and round-trips.  When the call returns, the
\* path returned is the resolved absolute form of the filepath given, the file
\* at that path holds exactly the bytes given, whatever it held before, every
\* directory above it exists, and no other file has changed.  The call raises
\* instead only where a file stands in the place of a directory of the path or
\* a directory in the place of the file, and then no file has changed.
C19_SaveBytesRoundTrips ==
    /\ sb_pc = "returned" =>
          /\ sb_result = <<AbsoluteForm(filepath)>>
          /\ sb_result[1] \in DOMAIN fs_files
          /\ fs_files[sb_result[1]] = content
          /\ \A k \in 0..(Len(sb_result[1]) - 1) : SubSeq(sb_result[1], 1, k) \in fs_dirs
          /\ fs_before.dirs \subseteq fs_dirs
          /\ \A q \in DOMAIN fs_before.files :
                q # sb_result[1] => q \in DOMAIN fs_files /\ fs_files[q] = fs_before.files[q]
    /\ sb_pc = "raised" =>
          /\ \/ \E k \in 0..(Len(AbsoluteForm(filepath)) - 1) :
                    SubSeq(AbsoluteForm(filepath), 1, k) \in DOMAIN fs_before.files
             \/ AbsoluteForm(filepath) \in fs_before.dirs
          /\ fs_files = fs_before.files

\* A relative filepath with a ".." in it, to a file that exists with other bytes,
\* is given bytes that hold NUL, LF and CR: the call has returned.
C19_Witness ==
    /\ sb_pc = "returned"
    /\ filepath.kind = "rel"
    /\ \E i \in 1..Len(filepath.parts) : filepath.parts[i] = ".."
    /\ sb_result[1] \in DOMAIN fs_before.files
    /\ fs_before.files[sb_result[1]] # content
    /\ content = <<10, 13, 0, 10>>
    /\ fs_files[sb_result[1]] = <<10, 13, 0, 10>>

(***************************************************************************)
(* C20                                                                     *)
(***************************************************************************)

\* The number the digits of a text spell, its sign, point and commas left out.
DigitsOf(t) == DigitSum(SelectSeq(t, LAMBDA c : c \in Digits), 0)

\* The text is a number of three decimals within half a thousandth of
\* x / 10000, with the sign of x.
ShowsR2(t, x) ==
    /\ Len(t) >= 5 /\ t[Len(t) - 3] = "."
    /\ (t[1] = "-") <=> (x < 0)
    /\ \A i \in 1..Len(t) : t[i] \in Digits \/ i = Len(t) - 3 \/ (i = 1 /\ x < 0)
    /\ LET shown == (IF x < 0 THEN 0 - 10 ELSE 10) * DigitsOf(t)
       IN  shown - x <= 5 /\ x - shown <= 5

\* The text is a whole number, a comma before each group of three digits, within
\* a half of x / 100.
ShowsRmse(t, x) ==
    /\ t # <<>> /\ t[1] # ","
    /\ \A i \in 1..Len(t) : IF (Len(t) - i + 1) % 4 = 0 THEN t[i] = "," ELSE t[i] \in Digits
    /\ 100 * DigitsOf(t) - x <= 50 /\ x - 100 * DigitsOf(t) <= 50

\* C20: train_eval_save_model works in the order split, fit, evaluate, save.
\* What model_path holds changes only once the pipeline is fitted and r2 and
\* rmse are computed and printed; when the selection, the split, the fit, the
\* prediction or a metric raises, model_path holds what it held before; and
\* when the call returns it returns the fitted pipeline, which is also what the
\* file holds, with the r2 and the rmse that the two printed lines show.
C20_SavedAfterFitAndEvaluation ==
    /\ ml_file # ml_file_before =>
          /\ ml_fitted /\ y_pred # <<>>
          /\ r2 = <<ml_scores.r2>> /\ rmse = <<ml_scores.rmse>>
          /\ Len(ml_stdout) >= 2
    /\ ml_raised \in {"select", "split", "fit", "predict", "score"} =>
          ml_pc = "raised" /\ ml_file = ml_file_before /\ ml_result = <<>>
    /\ ml_pc = "returned" =>
          /\ ml_result = <<[model_pipeline |-> "fitted pipeline", r2 |-> ml_scores.r2,
                            rmse |-> ml_scores.rmse]>>
          /\ ml_file = "fitted pipeline"
          /\ Len(ml_stdout) = 3
          /\ ShowsR2(ml_stdout[1][2], ml_result[1].r2)
          /\ ShowsRmse(ml_stdout[2][2], ml_result[1].rmse)
          /\ ml_stdout[3] = <<"Model saved to: ", "models/model.pkl">>

\* The call has returned over a stale model file, with a negative r2 that prints
\* as -0.250 and an rmse of 1,234,567.89 that prints as 1,234,568.
C20_Witness ==
    /\ ml_pc = "returned"
    /\ ml_file_before = "stale model"
    /\ ml_result[1].r2 = -2504
    /\ ml_result[1].rmse = 123456789
    /\ ml_stdout[1][2] = <<"-", "0", ".", "2", "5", "0">>
    /\ ml_stdout[2][2] = <<"1", ",", "2", "3", "4", ",", "5", "6", "8">>

(***************************************************************************)
(* C21                                                                     *)
(***************************************************************************)

\* The urls of the revenue calls of the script that have ended or are under
\* way, in the order they were begun.  A call is under way when the function is
\* running and the module has not taken note of its end.
RevenueCallsBegun ==
    [i \in 1..Len(done) |-> done[i].url]
    \o (IF pc = "idle" \/ script_raised # "" THEN <<>> ELSE <<url>>)

\* A GameStop step has begun: its price fetch, and so any step after it.
GameStopBegun == \E i \in 1..Len(history_calls) : history_calls[i] = "GME"

\* C21: the script composes linearly.  A figure is shown for a ticker only once
\* its price history and its revenue frame are both bound, the revenue call
\* having returned; no GameStop step begins before the Tesla figure is shown;
\* and each of the six steps (two price fetches, two revenue calls, two plots)
\* runs at most once, in that order.
C21_LinearComposition ==
    /\ Len(figures) >= 1 =>
          /\ figures[1].title = "Tesla (TSLA)"
          /\ tesla_stock # <<>> /\ tesla_revenue # <<>>
          /\ done[1].url = tesla_revenue_url /\ done[1].raised = "" /\ done[1].result = tesla_revenue
    /\ Len(figures) >= 2 =>
          /\ figures[2].title = "GameStop (GME)"
          /\ gme_stock # <<>> /\ gme_revenue # <<>>
          /\ done[2].url = gme_revenue_url /\ done[2].raised = "" /\ done[2].result = gme_revenue
    /\ GameStopBegun => Len(figures) >= 1
    /\ Len(figures) <= 2
    /\ history_calls \in {<<>>, <<"TSLA">>, <<"TSLA", "GME">>}
    /\ RevenueCallsBegun \in {<<>>, <<tesla_revenue_url>>, <<tesla_revenue_url, gme_revenue_url>>}
    /\ Len(RevenueCallsBegun) >= 2 => GameStopBegun
    /\ requests_sent <= Len(RevenueCallsBegun)

\* The script has run to its end: two price fetches, two requests, two figures.
C21_Witness ==
    /\ script_pc = "done"
    /\ history_calls = <<"TSLA", "GME">>
    /\ requests_sent = 2
    /\ Len(done) = 2
    /\ Len(figures) = 2
    /\ printed # <<>>

(***************************************************************************)
(* C22                                                                     *)
(***************************************************************************)

\* A row of two cells or more whose amount is not empty and holds nothing but
\* "$", "," and blanks between them: nothing of it is left for float() once the
\* symbols are removed.
OnlySymbols(row) ==
    /\ Len(CellTexts(row)) >= 2
    /\ CellTexts(row)[2] # <<>>
    /\ \A i \in 1..Len(CellTexts(row)[2]) : CellTexts(row)[2][i] \in {"$", ",", " "}
    /\ \E i \in 1..Len(CellTexts(row)[2]) : CellTexts(row)[2][i] \in {"$", ","}

\* C22: the skip test looks at the amount as the page holds it, before the
\* symbols are removed.  A row whose amount is "$", "," or "$," is not skipped:
\* its label and its amount are carried to the frame, and the call ends with
\* the parse failure and returns nothing, wherever the row sits.
C22_SkipTestBeforeCleaning ==
    /\ RowsEntered =>
          \A i \in 1..ri :
              OnlySymbols(trs[i]) =>
                  \E j \in 1..Len(revenues) :
                      /\ revenues[j] = CellTexts(trs[i])[2]
                      /\ dates[j] = CellTexts(trs[i])[1]
    /\ (Terminal /\ \E i \in 1..Len(trs) : OnlySymbols(trs[i])) =>
          /\ pc = "raised"
          /\ raised = FloatValueError
          /\ result = <<>>

\* A row with the amount "$," before a row with a good amount: both rows were
\* carried and the call has failed in the conversion.
C22_Witness ==
    /\ pc = "raised"
    /\ raised = FloatValueError
    /\ Len(trs) = 2
    /\ CellTexts(trs[1]) = <<Date2, <<"$", ",">> >>
    /\ revenues = << <<"$", ",">>, <<"$", "5">> >>

(***************************************************************************)
(* C23                                                                     *)
(***************************************************************************)

\* The request of the block failed: requests raised, or the status of the
\* response is a client or a server error.
BlockFailure == eh_net.kind # "response" \/ eh_net.status \in 400..599

\* The try statement has ended.
BlockEnded == eh_pc \in {"after", "scraping", "escaped"}

\* What holds in every state of the block.
C23_HandledOnce ==
    /\ eh_escaped = "" /\ eh_pc # "escaped"
    /\ Len(eh_handlers) <= 1
    /\ (BlockEnded /\ ~BlockFailure) => eh_handlers = <<>> /\ eh_stdout = <<>>
    /\ (BlockEnded /\ eh_net.kind = "response" /\ eh_net.status \in 400..599) =>
          eh_handlers = <<"HTTPError">> /\ eh_stdout = << <<"HTTP error:", "HTTPError">> >>
    /\ (BlockEnded /\ eh_net.kind # "response") =>
          eh_handlers = <<"RequestException">> /\ eh_stdout = << <<"Request error:", eh_net.kind>> >>

\* C23: no request-related exception leaves the error-handling block.  An
\* error status is handled by the HTTPError clause and by it alone, any other
\* exception of requests by the RequestException clause and by it alone, at
\* most one clause runs, and in every case the scraping section is reached.
C23_NoRequestExceptionEscapes == []C23_HandledOnce /\ <>(eh_pc = "scraping")

\* The request timed out while connecting (ConnectTimeout, derived from both
\* ConnectionError and Timeout): the RequestException clause has run and the
\* scraping section has begun.
C23_Witness ==
    /\ eh_pc = "scraping"
    /\ eh_net.kind = "ConnectTimeout"
    /\ eh_handlers = <<"RequestException">>

(***************************************************************************)
(* C24                                                                     *)
(***************************************************************************)

\* The rows of the body of the selected table, as the page holds them: the tr
\* elements inside the tbody of the first table that holds the label.
BodyRows ==
    IF FirstMatch = 0 \/ find_all(PageTables[FirstMatch], "tbody") = <<>> THEN <<>>
    ELSE find_all(find_all(PageTables[FirstMatch], "tbody")[1], "tr")

\* Those of them with two cells or more and an amount neither empty nor "nan".
UsableBodyRows == SelectSeq(BodyRows, Carried)

BodiesOfSelected ==
    IF FirstMatch = 0 THEN <<>> ELSE find_all(PageTables[FirstMatch], "tbody")

\* The check of the selected table is behind: the call is in the loop or past
\* it, or it has ended with an error other than a failed request.
PastCheck ==
    \/ pc \in {"rows", "frame", "sort", "returned"}
    \/ pc = "raised" /\ server.kind = "response"

\* C25: the rows read are rows inside a tbody inside the selected table, the
\* first one; when the selected table holds no tbody the call ends with an
\* error (AttributeError on None) before any row is read: it returns nothing,
\* and neither the rows directly under the table nor those of its header are
\* read.
C25_RowsOnlyFromBody ==
    /\ RowsEntered =>
          /\ BodiesOfSelected # <<>>
          /\ trs = find_all(BodiesOfSelected[1], "tr")
    /\ (PastCheck /\ FirstMatch # 0 /\ BodiesOfSelected = <<>>) =>
          /\ pc = "raised"
          /\ raised = NoneTypeError
          /\ result = <<>>
          /\ dates = <<>> /\ revenues = <<>>

\* The selected table has a header and a data row directly under it, no
\* tbody, and a table with a tbody follows it: the call has failed.
C25_Witness ==
    /\ pc = "raised"
    /\ raised = NoneTypeError
    /\ Len(PageTables) = 2
    /\ PageTables[1] = NoBodyTable
    /\ PageTables[2] = TeslaTable

\* The tbody elements that are children of the selected table.
OwnBodiesOfSelected ==
    IF FirstMatch = 0 THEN <<>>
    ELSE SelectSeq(PageTables[FirstMatch].kids, LAMBDA k : k.tag = "tbody")

\* C25 as stated: the rows read are rows of the selected table's own tbody, and
\* a selected table that has no tbody of its own makes the call fail.
C25_FailsWithoutOwnBody ==
    /\ RowsEntered =>
          /\ OwnBodiesOfSelected # <<>>
          /\ trs = find_all(OwnBodiesOfSelected[1], "tr")
    /\ (PastCheck /\ FirstMatch # 0 /\ OwnBodiesOfSelected = <<>>) =>
          /\ pc = "raised"
          /\ raised = NoneTypeError

(***************************************************************************)
(* C26                                                                     *)
(***************************************************************************)

\* The selected table has a body and no row of it is carried: the body has no
\* row, or each row has fewer than two cells or an amount that is empty or "nan".
EveryBodyRowSkipped ==
    /\ FirstMatch # 0
    /\ BodiesOfSelected # <<>>
    /\ \A i \in 1..Len(BodyRows) : ~Carried(BodyRows[i])

RawAmount(row) == get_text(find_all(row, "td")[2])

\* The text is made of blanks and nothing else (the empty text included).
IsBlankText(s) == \A i \in 1..Len(s) : s[i] = " "

\* The text is "nan", in any letter case, with blanks before and after it.
IsPaddedNan(s) ==
    \E a \in 0..Len(s) :
        /\ a + 3 <= Len(s)
        /\ IsBlankText(SubSeq(s, 1, a))
        /\ IsNanText(SubSeq(s, a + 1, a + 3))
        /\ IsBlankText(SubSeq(s, a + 4, Len(s)))

\* A row with two cells or more whose amount, blanks aside, is empty or "nan".
BlankOrNanRow(row) ==
    /\ Len(find_all(row, "td")) >= 2
    /\ IsBlankText(RawAmount(row)) \/ IsPaddedNan(RawAmount(row))

\* The amount of the row is written with a blank at one end at least.
PaddedAmount(row) ==
    /\ Len(find_all(row, "td")) >= 2
    /\ RawAmount(row) # <<>>
    /\ RawAmount(row)[1] = " " \/ RawAmount(row)[Len(RawAmount(row))] = " "

\* C27: the texts of the cells are compared once the blanks at their ends are
\* removed: a row whose amount is made of blanks is skipped as one whose amount
\* is empty, and a row whose amount is "nan" with blanks around it is skipped as
\* one whose amount is "nan"; no such row gives a record nor makes the call fail.
C27_ComparedAfterStrip ==
    RowsEntered =>
        /\ Len(revenues) = Len(SelectSeq(RowsRead, LAMBDA row :
                                  Len(find_all(row, "td")) >= 2 /\ ~BlankOrNanRow(row)))
        /\ \A i \in 1..Len(revenues) : ~IsBlankText(revenues[i]) /\ ~IsPaddedNan(revenues[i])
        /\ (\A i \in 1..Len(trs) : BlankOrNanRow(trs[i]) \/ ~BadAmount(trs[i])) => pc # "raised"

\* A row with the amount " nan " and a row with the amount "$5": the call has
\* returned one record.
C27_Witness ==
    /\ pc = "returned"
    /\ Len(trs) = 2
    /\ \E i \in 1..2 : PaddedAmount(trs[i]) /\ IsPaddedNan(RawAmount(trs[i]))
    /\ Len(Output) = 1

(***************************************************************************)
(* C28                                                                     *)
(***************************************************************************)

\* The order in which main calls the examples.
OrderOfMain ==
    << "example_get_ibm", "example_get_with_params", "example_post_form",
       "example_download_image", "example_download_text_file" >>

\* The file a download example writes, in the working directory.
DownloadPath(i) ==
    IF OrderOfMain[i] = "example_download_image" THEN <<"work", "image.png">>
    ELSE <<"work", "example1.txt">>
DownloadExamples == {4, 5}

\* What a path is in a file system: a file with its bytes, a directory, nothing.
Entry(dirs, files, q) ==
    IF q \in DOMAIN files THEN <<"file", files[q]>>
    ELSE IF q \in dirs THEN <<"directory">>
    ELSE <<"absent">>

\* The file of the example is not as it was before main.
FileTouched(i) ==
    Entry(fs_dirs, fs_files, DownloadPath(i)) # Entry(fs_before.dirs, fs_before.files, DownloadPath(i))

\* The request of the example fails: requests raises, or the status is an error.
FetchFails(i) == main_net[i].kind # "response" \/ main_net[i].status \in 400..599

\* What holds in every state of a run of main.
C28_State ==
    /\ examples_run = SubSeq(OrderOfMain, 1, IF main_pc > 5 THEN 5 ELSE main_pc)
    /\ \A i \in DownloadExamples :
          FileTouched(i) =>
              /\ ~FetchFails(i)
              /\ main_pc >= i
              /\ main_pc = i =>
                    /\ http_pc = "returned"
                    /\ http_response # <<>>
                    /\ http_response[1].status_code \notin 400..599
    /\ \A i \in 1..5 :
          FetchFails(i) =>
              /\ main_pc <= i
              /\ \A j \in DownloadExamples : j >= i => ~FileTouched(j)
    /\ main_raised # "" => main_pc \in 1..5 /\ Len(examples_run) = main_pc

\* What holds of every step: bytes are written while save_bytes runs for a
\* response that safe_get returned, and nothing runs once an example has failed.
C28_Step ==
    /\ fs_files' # fs_files => ex_pc = "save" /\ http_pc = "returned" /\ main_raised = ""
    /\ main_raised # "" => UNCHANGED vars

\* C28: a download example writes its file only after safe_get has returned a
\* response; when the request fails, image.png / example1.txt is as it was
\* before; main calls the five examples in the order written and the first one
\* that raises ends main, so that no later example is begun.
C28_WriteOnlyAfterFetch == []C28_State /\ [][C28_Step]_vars

\* image.png is there from an earlier run, the three examples before have
\* returned, the request of example_download_image has failed: main has ended
\* with RuntimeError, the file is as it was and example_download_text_file has
\* not begun.
C28_Witness ==
    /\ main_pc = 4
    /\ main_raised = "RuntimeError"
    /\ FetchFails(4)
    /\ Entry(fs_before.dirs, fs_before.files, DownloadPath(4)) = <<"file", <<1, 2>>>>
    /\ ~FileTouched(4)
    /\ Len(examples_run) = 4

=============================================================================
